---- MODULE Spec2Model ----
(***************************************************************************)
(* Protocol gateway of mcp-consultant-dev (src/src/index.ts): the JSON-RPC *)
(* dispatcher handleJsonRpc, the tool handlers it awaits, the stateless    *)
(* POST /mcp transport, the POST /sse/message/{sessionId} transport, the   *)
(* GET /sse stream opening and the coordinate-table load.                  *)
(*                                                                         *)
(* JavaScript values are tagged records, so that undefined, null, strings, *)
(* numbers and objects can be told apart the way the code tells them       *)
(* apart.  An object with a fixed key set is a record whose absent keys    *)
(* hold Undefined.                                                         *)
(***************************************************************************)
EXTENDS FiniteSets, Integers, Sequences, TLC

\* ------------------------------------------------------------------ bounds
\* crypto.randomUUID() is drawn at most MaxUuid times in a behaviour.
MaxUuid == 2
\* At most MaxConns /sse streams are opened in a behaviour.
MaxConns == 2
MaxPings == 2
\* An upstream search reply carries at most MaxResults postings.
MaxResults == 1
MaxFacets == 11
\* A listing of postings handed to search_assignments holds at most MaxListed.
MaxListed == 2

\* ------------------------------------------------------- JavaScript values
Undefined == [t |-> "undefined"]
Null == [t |-> "null"]
Str(s) == [t |-> "string", v |-> s]
Num(n) == [t |-> "number", v |-> n]
Bool(b) == [t |-> "boolean", v |-> b]
Arr(q) == [t |-> "array", v |-> q]
Obj(f) == [t |-> "object", f |-> f]

\* A string built by a template literal or a concatenation, kept as its parts.
Template(parts) == [t |-> "string", parts |-> parts]

\* The n-th value drawn from crypto.randomUUID(): a string, distinct per draw.
Uuid(n) == [t |-> "string", uuid |-> n]

IsString(v) == v.t = "string"
IsNumber(v) == v.t = "number"

\* Property read / destructuring of a non-null value: a primitive or an array
\* has none of the keys read here.
Get(v, k) == IF v.t = "object" /\ k \in DOMAIN v.f THEN v.f[k] ELSE Undefined

\* JavaScript truthiness of the values that occur.
Truthy(v) ==
  CASE v.t = "undefined" -> FALSE
    [] v.t = "null" -> FALSE
    [] v.t = "string" -> v # Str("")
    [] v.t = "number" -> v.v # 0
    [] v.t = "boolean" -> v.v
    [] OTHER -> TRUE

\* `${v}` in a template literal.
TemplateString(v) ==
  CASE v.t = "undefined" -> "undefined"
    [] v.t = "null" -> "null"
    [] v.t = "string" -> v.v
    [] OTHER -> "[object]"

\* JSON.stringify(o) of a response object: keys whose value is undefined are
\* omitted, every other key is kept with its value.
JsonStringify(o) == [k \in {x \in DOMAIN o : o[x] # Undefined} |-> o[k]]

\* delete o[key]
DeleteKey(o, key) == [k \in DOMAIN o \ {key} |-> o[k]]

\* ----------------------------------------------------------- Tool registry
MinimalTools == <<"search", "fetch">>
ExtendedTools ==
  <<"search_assignments", "get_assignment", "get_available_filters",
    "get_recent_assignments">>
TOOLS == MinimalTools \o ExtendedTools
ToolNames == {TOOLS[i] : i \in DOMAIN TOOLS}

\* ------------------------------------------------------------ Tool schemas
\* The keys an arguments object may carry in this model: the schema fields
\* and one key ("extra") that no schema declares.
NoArgs ==
  [query |-> Undefined, id |-> Undefined, sort |-> Undefined,
   page |-> Undefined, limit |-> Undefined, role |-> Undefined,
   location |-> Undefined, geo_lat |-> Undefined, geo_lon |-> Undefined,
   geo_radius |-> Undefined, seniority |-> Undefined,
   employment_type |-> Undefined, skills |-> Undefined, extra |-> Undefined]

ZodOk(a) == [ok |-> TRUE, v |-> a]
ZodError == [ok |-> FALSE, message |-> Str("ZodError")]

OptString(v) == v = Undefined \/ IsString(v)
OptNumber(v) == v = Undefined \/ IsNumber(v)
OptEnum(v, S) == v = Undefined \/ (IsString(v) /\ v.v \in S)
OptIntIn(v, lo, hi) == v = Undefined \/ (IsNumber(v) /\ v.v >= lo /\ v.v <= hi)
OptStringArray(v) ==
  v = Undefined \/
  (v.t = "array" /\ \A i \in DOMAIN v.v : IsString(v.v[i]))
Default(v, d) == IF v = Undefined THEN d ELSE v
\* z.number().int().min(1): no upper limit
OptIntMin(v, lo) == v = Undefined \/ (IsNumber(v) /\ v.v >= lo)

\* z.object({...}).parse(x): x must be an object; declared keys are
\* validated, defaults are filled in, undeclared keys are stripped.
SearchArgsSchema(x) ==
  IF x.t # "object" THEN ZodError
  ELSE LET a == x.f IN
    IF /\ OptString(a.query)
       /\ OptEnum(a.sort, {"quality", "posted", "deadline"})
       /\ OptIntMin(a.page, 1)
       /\ OptIntIn(a.limit, 1, 20)
       /\ OptString(a.role)
       /\ OptString(a.location)
       /\ OptNumber(a.geo_lat)
       /\ OptNumber(a.geo_lon)
       /\ OptNumber(a.geo_radius)
       /\ OptEnum(a.seniority, {"junior", "regular", "senior", "lead"})
       /\ OptString(a.employment_type)
       /\ OptStringArray(a.skills)
    THEN ZodOk([a EXCEPT !.sort = Default(a.sort, Str("quality")),
                         !.page = Default(a.page, Num(1)),
                         !.limit = Default(a.limit, Num(10)),
                         !.id = Undefined,
                         !.extra = Undefined])
    ELSE ZodError

GetAssignmentArgsSchema(x) ==
  IF x.t # "object" THEN ZodError
  ELSE IF IsString(x.f.id) THEN ZodOk([NoArgs EXCEPT !.id = x.f.id])
  ELSE ZodError

\* Mutant: the limit has no upper bound.
GetRecentArgsSchema_NoMax(x) ==
  IF x.t # "object" THEN ZodError
  ELSE IF OptIntMin(x.f.limit, 1)
  THEN ZodOk([NoArgs EXCEPT !.limit = Default(x.f.limit, Num(10))])
  ELSE ZodError

\* z.object({ limit }).parse(x)
GetRecentArgsSchema(x) ==
  IF x.t # "object" THEN ZodError
  ELSE IF OptIntIn(x.f.limit, 1, 20)
  THEN ZodOk([NoArgs EXCEPT !.limit = Default(x.f.limit, Num(10))])
  ELSE ZodError

ChatGPTSearchArgsSchema(x) ==
  IF x.t # "object" THEN ZodError
  ELSE IF IsString(x.f.query) THEN ZodOk([NoArgs EXCEPT !.query = x.f.query])
  ELSE ZodError

ChatGPTFetchArgsSchema(x) ==
  IF x.t # "object" THEN ZodError
  ELSE IF IsString(x.f.id) THEN ZodOk([NoArgs EXCEPT !.id = x.f.id])
  ELSE ZodError

\* ------------------------------------------------------------ Upstream API
\* A posting as the upstream API returns it (the fields the handlers read).
Assignment(id, company, url) ==
  Obj([id |-> Str(id), title |-> Str("Developer"), company |-> company,
       location |-> Str("Stockholm"), url |-> url])
Postings ==
  {Assignment("j1", Str("Acme"), Str("https://consultant.dev/a/j1")),
   Assignment("j2", Undefined, Undefined)}

\* A posting with a posted timestamp, a deadline that is a plain date, and
\* the first n of seven skills.  A timestamp is kept as its two sides of
\* the "T".
Timestamp(date, time) == [t |-> "string", date |-> date, time |-> time]
SkillNames ==
  <<Str("go"), Str("rust"), Str("sql"), Str("aws"), Str("java"), Str("perl"), Str("cobol")>>
SkilledPosting(id, n) ==
  Obj([id |-> Str(id), title |-> Str("Developer"), company |-> Str("Acme"),
       location |-> Str("Stockholm"), url |-> Undefined,
       posted |-> Timestamp("2025-01-02", "10:00:00Z"),
       deadline |-> Str("2025-02-01"),
       skills |-> Arr(SubSeq(SkillNames, 1, n))])
SkilledPostings ==
  {SkilledPosting("s0", 0), SkilledPosting("s5", 5), SkilledPosting("s7", 7)}

RECURSIVE SeqsUpTo(_, _)
SeqsUpTo(S, n) ==
  IF n = 0 THEN {<<>>}
  ELSE LET shorter == SeqsUpTo(S, n - 1) IN
    shorter \cup {Append(q, x) : q \in {r \in shorter : Len(r) = n - 1}, x \in S}

Facets ==
  Obj([roles |-> Arr(<<Str("Backend")>>), locations |-> Arr(<<Str("Stockholm")>>),
       seniority_levels |-> Arr(<<Str("senior")>>),
       employment_types |-> Undefined, companies |-> Arr(<<>>)])

\* fetchAPI either throws (network failure, non-success status, unparsable
\* body) or returns the decoded body.
ApiThrows == [ok |-> FALSE, message |-> Template(<<"API error: ", "500">>)]
ApiReturns(data) == [ok |-> TRUE, data |-> data]
SearchReplies ==
  {ApiThrows}
  \cup {ApiReturns(Obj([success |-> Bool(FALSE), results |-> Arr(<<>>), facets |-> Facets]))}
  \cup {ApiReturns(Obj([success |-> Bool(TRUE), results |-> Arr(r), facets |-> Facets])) :
          r \in SeqsUpTo(Postings, MaxResults)}
\* /search answers that list one to MaxListed postings: the values
\* ApiReturns(Obj([success |-> Bool(TRUE), results |-> Arr(r), facets |-> Facets]))
\* for every such list r.
ResultReplies ==
  [ok : {TRUE},
   data : [t : {"object"},
           f : [success : {Bool(TRUE)},
                results : [t : {"array"},
                           v : UNION {[1..n -> SkilledPostings
                                                 \cup {Assignment("j2", Undefined, Undefined)}] :
                                        n \in 1..MaxListed}],
                facets : {Facets}]]]
JobReplies ==
  {ApiThrows} \cup {ApiReturns(Obj([job |-> j])) : j \in {Undefined} \cup Postings}

\* The endpoint each handler calls through fetchAPI.
ToolEndpoint(tool) ==
  IF tool \in {"fetch", "get_assignment"} THEN "/job" ELSE "/search"

\* Facet lists as /search returns them: entries { value, count }, in
\* descending or ascending order of count, or the list missing.
FacetValue(i) == [t |-> "string", facet |-> i]
FacetEntry(i) == Obj([value |-> FacetValue(i), count |-> Num(i)])
Descending(n) == Arr([i \in 1..n |-> FacetEntry(n + 1 - i)])
Ascending(n) == Arr([i \in 1..n |-> FacetEntry(i)])
FacetLists ==
  {Undefined, Arr(<<>>)}
  \cup {Descending(n) : n \in (MaxFacets - 2)..MaxFacets}
  \cup {Ascending(n) : n \in (MaxFacets - 2)..MaxFacets}
FacetReplies ==
  {ApiReturns(Obj([success |-> Bool(TRUE), results |-> Arr(<<>>),
                   facets |-> Obj([roles |-> r, locations |-> l,
                                   seniority_levels |-> sl,
                                   employment_types |-> e, companies |-> c])])) :
     r \in FacetLists,
     l \in {Descending(MaxFacets), Ascending(2)},
     sl \in {Undefined, Ascending(MaxFacets)},
     e \in {Undefined, Descending(2)},
     c \in {Undefined, Descending(MaxFacets)}}

UpstreamReplies(tool) ==
  IF ToolEndpoint(tool) = "/job" THEN JobReplies
  ELSE SearchReplies \cup FacetReplies \cup ResultReplies

\* -------------------------------------------------------- Response shaping
\* compact(obj): JSON.stringify with a replacer that turns null and undefined
\* into undefined; an object key so replaced is omitted, an array element so
\* replaced is written as null.
RECURSIVE CompactValue(_)
CompactValue(v) ==
  CASE v.t = "object" ->
         Obj([k \in {x \in DOMAIN v.f : v.f[x] \notin {Null, Undefined}} |->
                CompactValue(v.f[k])])
    [] v.t = "array" ->
         Arr([i \in DOMAIN v.v |->
                IF v.v[i] \in {Null, Undefined} THEN Null ELSE CompactValue(v.v[i])])
    [] OTHER -> v

\* JSON.stringify(value) with no replacer: undefined keys are omitted, null
\* keys are kept.
RECURSIVE PlainValue(_)
PlainValue(v) ==
  CASE v.t = "object" ->
         Obj([k \in {x \in DOMAIN v.f : v.f[x] # Undefined} |-> PlainValue(v.f[k])])
    [] v.t = "array" ->
         Arr([i \in DOMAIN v.v |->
                IF v.v[i] = Undefined THEN Null ELSE PlainValue(v.v[i])])
    [] OTHER -> v
JSONstringify(obj) == [t |-> "string", json |-> PlainValue(obj)]

\* Mutant: the replacer is missing and null keys are written out.
compact_NoReplacer(obj) == [t |-> "string", json |-> PlainValue(obj)]

\* The text is kept as the value it serializes.
compact(obj) == [t |-> "string", json |-> CompactValue(obj)]

\* JSON.parse(text) of a text JSON.stringify wrote.
JSONparse(text) == text.json

TextContent(text) == [content |-> <<[type |-> "text", text |-> text]>>]
Returned(v) == [threw |-> FALSE, v |-> v]
Thrown(message) == [threw |-> TRUE, message |-> message]

\* x || y
OrElse(x, y) == IF Truthy(x) THEN x ELSE y
\* arr.slice(0, n)
Slice(arr, n) ==
  IF arr = Undefined THEN Undefined
  ELSE Arr(SubSeq(arr.v, 1, IF Len(arr.v) < n THEN Len(arr.v) ELSE n))

\* v?.split("T")[0]
SplitT(v) ==
  IF v \in {Undefined, Null} THEN Undefined
  ELSE IF "date" \in DOMAIN v THEN Str(v.date)
  ELSE v

DefaultUrl(a) == Template(<<"https://consultant.dev/assignments/", TemplateString(Get(a, "id"))>>)

\* ------------------------------------------------------------ Tool handlers
\* Each handler is given its validated arguments and the outcome of its one
\* fetchAPI call, and returns its result or throws.
ChatGPTSearchItem(a) ==
  Obj([id |-> Get(a, "id"),
       title |-> Template(<<TemplateString(Get(a, "title")), " at ",
                            TemplateString(Get(a, "company")), " - ",
                            TemplateString(Get(a, "location"))>>),
       url |-> OrElse(Get(a, "url"), DefaultUrl(a))])

handleChatGPTSearch(args, reply) ==
  IF ~reply.ok THEN Thrown(reply.message)
  ELSE LET data == reply.data IN
    IF ~Truthy(Get(data, "success")) \/ Len(Get(data, "results").v) = 0
    THEN Returned(TextContent(JSONstringify(Obj([results |-> Arr(<<>>)]))))
    ELSE Returned(TextContent(JSONstringify(
           Obj([results |-> Arr([i \in DOMAIN Get(data, "results").v |->
                                   ChatGPTSearchItem(Get(data, "results").v[i])])]))))

\* Mutant: the try block has no catch and a failed call propagates.
handleChatGPTFetch_NoCatch(args, reply) ==
  IF ~reply.ok THEN Thrown(reply.message)
  ELSE LET a == Get(reply.data, "job") IN
    IF ~Truthy(a)
    THEN Returned(TextContent(JSONstringify(
           Obj([id |-> args.id, title |-> Str("Not found"),
                text |-> Str("Job not found"), url |-> Str("")]))))
    ELSE Returned(TextContent(JSONstringify(
           Obj([id |-> Get(a, "id"),
                title |-> Template(<<TemplateString(Get(a, "title")), " at ",
                                     TemplateString(Get(a, "company"))>>),
                text |-> Template(<<TemplateString(Get(a, "title")), "\n\nCompany: ",
                                    TemplateString(Get(a, "company")), "\nLocation: ",
                                    TemplateString(Get(a, "location"))>>),
                url |-> OrElse(Get(a, "url"), DefaultUrl(a)),
                metadata |-> Obj([company |-> Get(a, "company"),
                                  location |-> Get(a, "location")])]))))

handleChatGPTFetch(args, reply) ==
  IF ~reply.ok
  THEN Returned(TextContent(JSONstringify(
         Obj([id |-> args.id, title |-> Str("Error"),
              text |-> Str("Failed to fetch job"), url |-> Str("")]))))
  ELSE LET a == Get(reply.data, "job") IN
    IF ~Truthy(a)
    THEN Returned(TextContent(JSONstringify(
           Obj([id |-> args.id, title |-> Str("Not found"),
                text |-> Str("Job not found"), url |-> Str("")]))))
    ELSE Returned(TextContent(JSONstringify(
           Obj([id |-> Get(a, "id"),
                title |-> Template(<<TemplateString(Get(a, "title")), " at ",
                                     TemplateString(Get(a, "company"))>>),
                text |-> Template(<<TemplateString(Get(a, "title")), "\n\nCompany: ",
                                    TemplateString(Get(a, "company")), "\nLocation: ",
                                    TemplateString(Get(a, "location"))>>),
                url |-> OrElse(Get(a, "url"), DefaultUrl(a)),
                metadata |-> Obj([company |-> Get(a, "company"),
                                  location |-> Get(a, "location")])]))))

\* Mutant: the skills are passed on as they came, however many.
SearchAssignmentsItem_AllSkills(a) ==
  Obj([id |-> Get(a, "id"), title |-> Get(a, "title"),
       company |-> Get(a, "company"), location |-> Get(a, "location"),
       posted |-> SplitT(Get(a, "posted")),
       deadline |-> SplitT(Get(a, "deadline")),
       skills |-> Get(a, "skills")])

SearchAssignmentsItem(a) ==
  Obj([id |-> Get(a, "id"), title |-> Get(a, "title"),
       company |-> Get(a, "company"), location |-> Get(a, "location"),
       posted |-> SplitT(Get(a, "posted")),
       deadline |-> SplitT(Get(a, "deadline")),
       skills |-> Slice(Get(a, "skills"), 5)])

handleSearchAssignments(args, reply) ==
  IF ~reply.ok THEN Thrown(reply.message)
  ELSE LET data == reply.data IN
    IF ~Truthy(Get(data, "success")) THEN Returned(TextContent(Str("Search failed.")))
    ELSE IF Len(Get(data, "results").v) = 0
    THEN Returned(TextContent(Str("No exact matches found.")))
    ELSE LET results == Arr([i \in DOMAIN Get(data, "results").v |->
                              SearchAssignmentsItem(Get(data, "results").v[i])]) IN
      Returned(TextContent(compact(
        Obj([total |-> Num(Len(results.v)), page |-> OrElse(args.page, Num(1)),
             results |-> results]))))

NotFoundText(args) ==
  Template(<<"Assignment '", TemplateString(args.id), "' not found.">>)

\* Mutant: the try block has no catch and a failed call propagates.
handleGetAssignment_NoCatch(args, reply) ==
  IF ~reply.ok THEN Thrown(reply.message)
  ELSE LET a == Get(reply.data, "job") IN
    IF ~Truthy(a) THEN Returned(TextContent(NotFoundText(args)))
    ELSE Returned(TextContent(compact(
           Obj([id |-> Get(a, "id"), title |-> Get(a, "title"),
                company |-> Get(a, "company"), location |-> Get(a, "location"),
                url |-> Get(a, "url")]))))

handleGetAssignment(args, reply) ==
  IF ~reply.ok THEN Returned(TextContent(NotFoundText(args)))
  ELSE LET a == Get(reply.data, "job") IN
    IF ~Truthy(a) THEN Returned(TextContent(NotFoundText(args)))
    ELSE Returned(TextContent(compact(
           Obj([id |-> Get(a, "id"), title |-> Get(a, "title"),
                company |-> Get(a, "company"), location |-> Get(a, "location"),
                url |-> Get(a, "url")]))))

\* Mutant: the success path builds the text and falls off the end of the
\* function without returning it.
handleGetAvailableFilters_NoReturn(args, reply) ==
  IF ~reply.ok THEN Thrown(reply.message)
  ELSE IF ~Truthy(Get(reply.data, "success"))
  THEN Returned(TextContent(Str("Failed to fetch filters.")))
  ELSE Returned(Undefined)

handleGetAvailableFilters(args, reply) ==
  IF ~reply.ok THEN Thrown(reply.message)
  ELSE LET data == reply.data
           facets == Get(data, "facets") IN
    IF ~Truthy(Get(data, "success"))
    THEN Returned(TextContent(Str("Failed to fetch filters.")))
    ELSE Returned(TextContent(compact(
           Obj([roles |-> Slice(Get(facets, "roles"), 10),
                locations |-> Slice(Get(facets, "locations"), 10),
                seniority_levels |-> Get(facets, "seniority_levels"),
                employment_types |-> Get(facets, "employment_types"),
                companies |-> Slice(Get(facets, "companies"), 10)]))))

handleGetRecentAssignments(args, reply) ==
  IF ~reply.ok THEN Thrown(reply.message)
  ELSE LET data == reply.data IN
    IF ~Truthy(Get(data, "success"))
    THEN Returned(TextContent(Str("Failed to fetch recent assignments.")))
    ELSE Returned(TextContent(compact(
           Obj([results |-> Arr([i \in DOMAIN Get(data, "results").v |->
                                   SearchAssignmentsItem(Get(data, "results").v[i])])]))))

\* The handler the inner switch of tools/call selects for a registered name.
RunHandler(tool, args, reply) ==
  CASE tool = "search" -> handleChatGPTSearch(args, reply)
    [] tool = "fetch" -> handleChatGPTFetch(args, reply)
    [] tool = "search_assignments" -> handleSearchAssignments(args, reply)
    [] tool = "get_assignment" -> handleGetAssignment(args, reply)
    [] tool = "get_available_filters" -> handleGetAvailableFilters(args, reply)
    [] tool = "get_recent_assignments" -> handleGetRecentAssignments(args, reply)

\* ------------------------------------------------------ JSON-RPC dispatcher
ResultEnvelope(id, result) ==
  [jsonrpc |-> Str("2.0"), id |-> id, result |-> result]
ErrorEnvelope(id, code, message) ==
  [jsonrpc |-> Str("2.0"), id |-> id, error |-> [code |-> code, message |-> message]]

InitializeResult ==
  [protocolVersion |-> "2024-11-05", capabilities |-> "tools",
   serverInfo |-> "consultant-jobs/1.0.0"]

\* What a call of handleJsonRpc has done when it first yields:
\*   rejects  - the promise rejects (an exception left the function);
\*   returns  - it returned v, having added the ids in add to activeSessions
\*              and drawn a UUID iff drew;
\*   awaits   - a validated tools/call is running the handler of tool.
Rejects == [k |-> "rejects"]
Returns(v) == [k |-> "returns", v |-> v, add |-> {}, drew |-> FALSE]
Awaits(id, tool, args) == [k |-> "awaits", id |-> id, tool |-> tool, args |-> args]

\* The catch block of handleJsonRpc.
CatchBlock(id, message) == Returns(ErrorEnvelope(id, -32603, message))

\* Mutant: the chosen id is not added to activeSessions.
Initialize_NotRecorded(sessionId, id, uuid) ==
  LET newSessionId == IF Truthy(sessionId) THEN sessionId ELSE uuid IN
  [k |-> "returns",
   v |-> [jsonrpc |-> Str("2.0"), id |-> id, result |-> InitializeResult,
          _sessionId |-> newSessionId],
   add |-> {},
   drew |-> ~Truthy(sessionId)]

\* Mutant: a fresh id is minted whether or not one was supplied.
Initialize_AlwaysMints(sessionId, id, uuid) ==
  [k |-> "returns",
   v |-> [jsonrpc |-> Str("2.0"), id |-> id, result |-> InitializeResult,
          _sessionId |-> uuid],
   add |-> {uuid},
   drew |-> TRUE]

\* case "initialize"
Initialize(sessionId, id, uuid) ==
  LET newSessionId == IF Truthy(sessionId) THEN sessionId ELSE uuid IN
  [k |-> "returns",
   v |-> [jsonrpc |-> Str("2.0"), id |-> id, result |-> InitializeResult,
          _sessionId |-> newSessionId],
   add |-> {newSessionId},
   drew |-> ~Truthy(sessionId)]

\* Mutant: the handler is called whether or not the arguments parsed.
ParseThen_RunsAnyway(id, tool, parsed) ==
  IF parsed.ok THEN Awaits(id, tool, parsed.v) ELSE Awaits(id, tool, NoArgs)

\* Schema.parse(args) followed by the handler call, inside the try block.
ParseThen(id, tool, parsed) ==
  IF parsed.ok THEN Awaits(id, tool, parsed.v) ELSE CatchBlock(id, parsed.message)

\* Mutant: the inner switch has no default and an unknown name runs the
\* handler of the case above it.
UnknownTool_FallsThrough(id, name) == Awaits(id, "get_recent_assignments", NoArgs)

\* default: of the inner switch
UnknownTool(id, name) ==
  Returns(ErrorEnvelope(id, -32601,
            Template(<<"Unknown tool: ", TemplateString(name)>>)))

\* case "tools/call", up to the handler's first await
ToolsCall(id, params) ==
  IF params.t \in {"undefined", "null"}
  THEN CatchBlock(id, Str("TypeError"))
  ELSE LET name == Get(params, "name")
           args == Get(params, "arguments") IN
    CASE name = Str("search") ->
           ParseThen(id, "search", ChatGPTSearchArgsSchema(args))
      [] name = Str("fetch") ->
           ParseThen(id, "fetch", ChatGPTFetchArgsSchema(args))
      [] name = Str("search_assignments") ->
           ParseThen(id, "search_assignments",
                     SearchArgsSchema(OrElse(args, Obj(NoArgs))))
      [] name = Str("get_assignment") ->
           ParseThen(id, "get_assignment", GetAssignmentArgsSchema(args))
      [] name = Str("get_available_filters") ->
           Awaits(id, "get_available_filters", NoArgs)
      [] name = Str("get_recent_assignments") ->
           ParseThen(id, "get_recent_assignments",
                     GetRecentArgsSchema(OrElse(args, Obj(NoArgs))))
      [] OTHER -> UnknownTool(id, name)

\* Mutant: an unknown method is reported through the catch block's code.
MethodNotFound_Internal(id, method) ==
  Returns(ErrorEnvelope(id, -32603, Str("Internal error")))

\* default: of the outer switch
MethodNotFound(id, method) ==
  Returns(ErrorEnvelope(id, -32601,
            Template(<<"Method not found: ", TemplateString(method)>>)))

\* case "notifications/initialized"
NotificationsInitialized(id) == Returns(Null)

\* Mutant: tools/list is served only to a caller that names a session.
ToolsList_SessionRequired(sessionId, id) ==
  IF Truthy(sessionId)
  THEN Returns(ResultEnvelope(id, [tools |-> TOOLS]))
  ELSE Returns(ErrorEnvelope(id, -32600, Str("Missing session")))

\* case "tools/list"
ToolsList(sessionId, id) == Returns(ResultEnvelope(id, [tools |-> TOOLS]))

\* Mutant: ping records the caller's session id.
Ping_RecordsSession(sessionId, id) ==
  [Returns(ResultEnvelope(id, [empty |-> TRUE])) EXCEPT !.add = {sessionId}]

\* case "ping"
Ping(sessionId, id) == Returns(ResultEnvelope(id, [empty |-> TRUE]))

\* handleJsonRpc(sessionId, request) up to its first await; uuid is what
\* crypto.randomUUID() returns if it is called.
handleJsonRpc(sessionId, request, uuid) ==
  IF request.t \in {"undefined", "null"} THEN Rejects
  ELSE LET id == Get(request, "id")
           method == Get(request, "method")
           params == Get(request, "params") IN
    CASE method = Str("initialize") -> Initialize(sessionId, id, uuid)
      [] method = Str("notifications/initialized") -> NotificationsInitialized(id)
      [] method = Str("tools/list") -> ToolsList(sessionId, id)
      [] method = Str("tools/call") -> ToolsCall(id, params)
      [] method = Str("ping") -> Ping(sessionId, id)
      [] OTHER -> MethodNotFound(id, method)

\* The rest of case "tools/call" once the handler's fetchAPI call has settled.
ToolsCallResume(id, tool, args, reply) ==
  LET r == RunHandler(tool, args, reply) IN
  IF r.threw THEN ErrorEnvelope(id, -32603, r.message)
  ELSE ResultEnvelope(id, r.v)

\* -------------------------------------------------------- Location resolver
\* Place names are kept as strings; toLowerCase, trim and the suffix-stripping
\* replace are given on the names that occur (a-umlaut is written a).
ToLowerCase(s) ==
  CASE s = "Stockholms lan" -> "stockholms lan"
    [] s = "Stockholm" -> "stockholm"
    [] s = " Stockholm " -> " stockholm "
    [] s = "Uppsala" -> "uppsala"
    [] s = "Kista" -> "kista"
    [] s = "Remote" -> "remote"
    [] s = "Distans" -> "distans"
    [] OTHER -> s
Trim(s) ==
  CASE s = " stockholm " -> "stockholm"
    [] OTHER -> s
\* name.replace(/s lan$/, "").replace(/ lan$/, "")
StripLan(s) ==
  CASE s = "stockholms lan" -> "stockholm"
    [] s = "orebro lan" -> "orebro"
    [] OTHER -> s

EmptyTable == [k \in {} |-> Undefined]
Put(table, key, info) ==
  [k \in DOMAIN table \cup {key} |->
     IF k = key THEN [lat |-> Get(info, "lat"), lon |-> Get(info, "lon")]
     ELSE table[k]]

\* One entry of the dataset, in the order the three loops visit them:
\* [from |-> "lan" | "kommuner" | "cities", key |-> the object key,
\*  info |-> the entry].  Reading a property of a null entry, or calling
\* toLowerCase on a missing name, throws.
EntryThrows(e) ==
  \/ e.info.t \in {"null", "undefined"}
  \/ e.from \in {"lan", "kommuner"} /\ ~IsString(Get(e.info, "name"))

PutEntry(table, e) ==
  IF e.from = "cities" THEN Put(table, ToLowerCase(e.key), e.info)
  ELSE LET name == ToLowerCase(Get(e.info, "name").v)
           shortName == StripLan(name) IN
    IF e.from = "lan" /\ shortName # name
    THEN Put(Put(table, name, e.info), shortName, e.info)
    ELSE Put(table, name, e.info)

\* The three loops over the dataset: [table, completed].
RECURSIVE BuildLookup(_, _)
BuildLookup(table, entries) ==
  IF entries = <<>> THEN [table |-> table, completed |-> TRUE]
  ELSE IF EntryThrows(Head(entries)) THEN [table |-> table, completed |-> FALSE]
  ELSE BuildLookup(PutEntry(table, Head(entries)), Tail(entries))

Info(name, lat, lon) == Obj([name |-> name, lat |-> Num(lat), lon |-> Num(lon)])
GoodDataset ==
  <<[from |-> "lan", key |-> "01", info |-> Info(Str("Stockholms lan"), 59, 18)],
    [from |-> "kommuner", key |-> "0380", info |-> Info(Str("Uppsala"), 60, 17)],
    [from |-> "cities", key |-> "Kista", info |-> Info(Undefined, 59, 17)]>>
BadDataset ==
  <<[from |-> "lan", key |-> "01", info |-> Info(Str("Stockholms lan"), 59, 18)],
    [from |-> "kommuner", key |-> "0380", info |-> Null]>>

\* How the fetch of the dataset and resp.json() end.
CoordsReplies ==
  {[k |-> "fetchFails"], [k |-> "parseFails"],
   [k |-> "data", entries |-> GoodDataset], [k |-> "data", entries |-> BadDataset]}

\* The body of loadLocationCoords after its awaits: [table, loaded].
LoadResult(table, reply) ==
  IF reply.k # "data" THEN [table |-> table, loaded |-> FALSE]
  ELSE LET b == BuildLookup(table, reply.entries) IN
    [table |-> b.table, loaded |-> b.completed]

\* ---------------------------------------------------------- Upstream client
\* String(n)
String(n) == IF n = Undefined THEN Str("undefined") ELSE [t |-> "string", num |-> n.v]
NoParams ==
  [sort |-> Undefined, page |-> Undefined, limit |-> Undefined,
   geo_lat |-> Undefined, geo_lon |-> Undefined, geo_radius |-> Undefined,
   location |-> Undefined, q |-> Undefined, role |-> Undefined,
   seniority |-> Undefined, employment_type |-> Undefined, skills |-> Undefined]

IfTruthy(v) == IF Truthy(v) THEN v ELSE Undefined

\* The own keys every object literal inherits from Object.prototype that are
\* left unchanged by toLowerCase: table["constructor"] is the Object function
\* and table["__proto__"] is Object.prototype, both truthy, neither with a
\* lat or a lon.
ObjectPrototypeKeys == {"constructor", "__proto__"}

\* locationCoords[normalized]
Lookup(table, key) ==
  IF key \in DOMAIN table
  THEN [t |-> "object", lat |-> table[key].lat, lon |-> table[key].lon]
  ELSE IF key \in ObjectPrototypeKeys
  THEN [t |-> "object", lat |-> Undefined, lon |-> Undefined]
  ELSE Undefined

\* Mutant: the location is sent as a string beside the coordinates.
GeoParams_LocationKept(args, table) ==
  IF Truthy(args.geo_lat) /\ Truthy(args.geo_lon)
  THEN [NoParams EXCEPT !.geo_lat = String(args.geo_lat),
                        !.geo_lon = String(args.geo_lon),
                        !.geo_radius = String(OrElse(args.geo_radius, Num(50))),
                        !.location = args.location]
  ELSE IF Truthy(args.location)
  THEN [NoParams EXCEPT !.location = args.location]
  ELSE NoParams

\* The geo / location part of the params handleSearchAssignments builds.
GeoParams(args, table) ==
  IF Truthy(args.geo_lat) /\ Truthy(args.geo_lon)
  THEN [NoParams EXCEPT !.geo_lat = String(args.geo_lat),
                        !.geo_lon = String(args.geo_lon),
                        !.geo_radius = String(OrElse(args.geo_radius, Num(50)))]
  ELSE IF Truthy(args.location)
  THEN LET normalized == Trim(ToLowerCase(args.location.v)) IN
    IF normalized = "remote" \/ normalized = "distans"
    THEN [NoParams EXCEPT !.location = args.location]
    ELSE LET coords == Lookup(table, normalized) IN
      IF coords # Undefined
      THEN [NoParams EXCEPT !.geo_lat = String(coords.lat),
                            !.geo_lon = String(coords.lon),
                            !.geo_radius = String(OrElse(args.geo_radius, Num(50)))]
      ELSE [NoParams EXCEPT !.location = args.location]
  ELSE NoParams

SearchParams(args, table) ==
  [GeoParams(args, table) EXCEPT
     !.sort = OrElse(args.sort, Str("quality")),
     !.page = String(OrElse(args.page, Num(1))),
     !.limit = String(OrElse(args.limit, Num(10))),
     !.q = IfTruthy(args.query),
     !.role = IfTruthy(args.role),
     !.seniority = IfTruthy(args.seniority),
     !.employment_type = IfTruthy(args.employment_type),
     !.skills = IF args.skills # Undefined /\ Len(args.skills.v) > 0
                THEN [t |-> "string", joined |-> args.skills.v] ELSE Undefined]

\* The params each handler hands to fetchAPI.
HandlerParams(tool, args, table) ==
  CASE tool = "search" -> [NoParams EXCEPT !.q = args.query, !.limit = Str("10")]
    [] tool = "search_assignments" -> SearchParams(args, table)
    [] tool = "get_available_filters" -> [NoParams EXCEPT !.limit = Str("1")]
    [] tool = "get_recent_assignments" ->
         [NoParams EXCEPT !.sort = Str("posted"),
                          !.limit = String(OrElse(args.limit, Num(10)))]
    [] OTHER -> NoParams

\* fetchAPI(endpoint, params): the request it issues; a param whose value is
\* falsy is not appended to the query string.
fetchAPI(tool, args, table) ==
  LET params == HandlerParams(tool, args, table) IN
  [endpoint |-> ToolEndpoint(tool),
   job |-> IF ToolEndpoint(tool) = "/job" THEN args.id ELSE Undefined,
   query |-> [k \in {x \in DOMAIN params : Truthy(params[x])} |-> params[k]]]

\* ------------------------------------------------------- Transport adapters
\* A request body as it arrives: not well-formed JSON, or the value
\* request.json() decodes it to.
Malformed == [t |-> "malformed"]

\* await request.json(): throws on a body that is not well-formed JSON.
RequestJson(body) ==
  IF body = Malformed THEN [threw |-> TRUE, value |-> Undefined]
  ELSE [threw |-> FALSE, value |-> body]

\* The dispatcher's part in an exchange, as the transport sees it.
NotInvoked == [t |-> "notInvoked"]
Pending == [t |-> "pending"]
Rejected == [t |-> "rejected"]

NoResponse == [sent |-> FALSE]
HttpResponse(status, sessionHeader, body) ==
  [sent |-> TRUE, status |-> status, sessionHeader |-> sessionHeader, body |-> body]

\* Mutant: the parse-error envelope is built without its id.
ParseErrorResponse_NoId ==
  HttpResponse(400, Undefined,
               JsonStringify(ErrorEnvelope(Undefined, -32700, Str("Parse error"))))

\* The catch block of both POST routes.
ParseErrorResponse ==
  HttpResponse(400, Undefined,
               JsonStringify(ErrorEnvelope(Null, -32700, Str("Parse error"))))

\* Mutant: the null check is missing and null is serialized like a response.
McpResponse_NoNullCheck(rpc) ==
  IF rpc = Rejected THEN ParseErrorResponse
  ELSE IF rpc = Null THEN HttpResponse(200, Undefined, Null)
  ELSE HttpResponse(200,
                    IF "_sessionId" \in DOMAIN rpc THEN IfTruthy(rpc._sessionId)
                    ELSE Undefined,
                    JsonStringify(DeleteKey(rpc, "_sessionId")))

\* Mutant: /health lists the extended tools only.
HealthResponse_ExtendedOnly ==
  HttpResponse(200, Undefined,
               [status |-> Str("healthy"), server |-> Str("consultant-jobs"),
                version |-> Str("1.0.0"), tools |-> ExtendedTools])

\* GET /health
HealthResponse ==
  HttpResponse(200, Undefined,
               [status |-> Str("healthy"), server |-> Str("consultant-jobs"),
                version |-> Str("1.0.0"), tools |-> TOOLS])

\* POST /mcp after `await handleJsonRpc(sessionId, body)` has settled with rpc.
McpResponse(rpc) ==
  IF rpc = Rejected THEN ParseErrorResponse
  ELSE IF rpc = Null THEN HttpResponse(204, Undefined, Undefined)
  ELSE LET responseSessionId ==
             IF "_sessionId" \in DOMAIN rpc THEN rpc._sessionId ELSE Undefined IN
    HttpResponse(200, IfTruthy(responseSessionId),
                 JsonStringify(DeleteKey(rpc, "_sessionId")))

\* Mutant: the internal field is not deleted before the response is written.
SseMessageResponse_FieldKept(rpc) ==
  IF rpc = Rejected THEN ParseErrorResponse
  ELSE IF rpc = Null THEN HttpResponse(204, Undefined, Undefined)
  ELSE HttpResponse(200, Undefined, JsonStringify(rpc))

\* POST /sse/message/{sessionId} after the dispatcher has settled with rpc.
SseMessageResponse(rpc) ==
  IF rpc = Rejected THEN ParseErrorResponse
  ELSE IF rpc = Null THEN HttpResponse(204, Undefined, Undefined)
  ELSE HttpResponse(200, Undefined, JsonStringify(DeleteKey(rpc, "_sessionId")))

\* Mutant: /sse/message answers the way /mcp does, header included.
Respond_HeaderOnBoth(route, rpc) == McpResponse(rpc)

Respond(route, rpc) ==
  IF route = "/mcp" THEN McpResponse(rpc) ELSE SseMessageResponse(rpc)

\* Mutant: the id in the path of /sse/message is not handed on.
SessionIdOf_PathDropped(route, sid) == IF route = "/mcp" THEN sid ELSE Null

\* The session id each route hands to the dispatcher: the mcp-session-id
\* header (null when absent), or the last path segment || null.
SessionIdOf(route, sid) == IF route = "/mcp" THEN sid ELSE OrElse(sid, Null)

\* ------------------------------------------------------------------- State
VARIABLES
  activeSessions,   \* the module-level Set of session ids
  uuidCount,        \* how many values crypto.randomUUID() has returned
  locationCoords,   \* the module-level lookup table
  coordsLoaded,     \* the module-level flag
  loadSettled,      \* history: a run of loadLocationCoords has ended
  conns,            \* the /sse streams opened, in order
  mintedIds,        \* history: the ids initialize has minted, in order
  roundTrip,        \* an object handed to compact, its text, the text parsed
  ex                \* the exchanges: slot -> exchange

vars == <<activeSessions, uuidCount, locationCoords, coordsLoaded, loadSettled, roundTrip,
          conns, mintedIds, ex>>

\* Exchange slots; slot x1 carries the exchanges of Spec, one after another.
Slots == {"x1", "x2"}

\* An exchange: pc is idle, coords (awaiting the dataset), upstream (awaiting
\* fetchAPI) or done (the response is sent).  calls are the requests it has
\* sent upstream, loads the dataset fetches it has started, load how its
\* dataset fetch ended and reply what its fetchAPI call settled with.
NoRoundTrip == [obj |-> Undefined, text |-> Undefined, parsed |-> Undefined]

IdleExchange ==
  [pc |-> "idle", route |-> "", sid |-> Undefined, body |-> Undefined,
   rpc |-> NotInvoked, id |-> Undefined, tool |-> "", args |-> NoArgs,
   calls |-> <<>>, loads |-> 0, load |-> "", reply |-> Undefined,
   minted |-> Undefined, http |-> NoResponse]

Init ==
  /\ activeSessions = {}
  /\ uuidCount = 0
  /\ locationCoords = EmptyTable
  /\ coordsLoaded = FALSE
  /\ loadSettled = FALSE
  /\ roundTrip = NoRoundTrip
  /\ conns = <<>>
  /\ mintedIds = <<>>
  /\ ex = [s \in Slots |-> IdleExchange]

\* ---------------------------------------------------------- Request inputs
Routes == {"/mcp", "/sse/message"}
ClientSessionIds == {Str("c1")}
\* What a caller can put in the header or the path: nothing, the empty
\* string, an id of its own, or an id the server has issued.
SessionInputs(route) ==
  (IF route = "/mcp" THEN {Null} ELSE {})
  \cup {Str("")} \cup ClientSessionIds \cup {Uuid(n) : n \in 1..uuidCount}

RequestIds == {Undefined, Num(1)}
KnownMethods ==
  {"initialize", "notifications/initialized", "tools/list", "tools/call", "ping"}
Methods == {Str(m) : m \in KnownMethods} \cup {Str("resources/list"), Undefined}
ArgumentValues ==
  {Undefined, Obj(NoArgs),
   Obj([NoArgs EXCEPT !.query = Str("python")]),
   Obj([NoArgs EXCEPT !.id = Str("j1")]),
   Obj([NoArgs EXCEPT !.limit = Num(21)])}
ToolNameValues == {Str(n) : n \in ToolNames} \cup {Str("delete_all"), Undefined}
ParamsValues ==
  {Undefined}
  \cup {Obj([name |-> n, arguments |-> a]) : n \in ToolNameValues, a \in ArgumentValues}
RequestObjects ==
  {Obj([id |-> i, method |-> m, params |-> p]) :
     i \in RequestIds,
     m \in Methods,
     p \in ParamsValues}
\* params is read by tools/call alone; the other methods are sent without it.
Bodies ==
  {Malformed, Null, Num(5)}
  \cup {r \in RequestObjects :
          r.f.method # Str("tools/call") => r.f.params = Undefined}

\* ----------------------------------------------------------------- Actions
\* Mutant: requests are served one at a time; none is taken in while another
\* exchange is waiting on the network.
CanAccept_OneAtATime(s) ==
  /\ ex[s].pc = "idle"
  /\ \A t \in Slots \ {s} : ex[t].pc \notin {"coords", "upstream"}

\* fetch(request) is entered for each request as it arrives, whatever the
\* other exchanges are waiting for.
CanAccept(s) == ex[s].pc = "idle"

\* A POST arrives on route with session input sid and body: the route reads
\* the body, calls the dispatcher, and the exchange runs until it responds or
\* reaches its first await on the network.
Receive(s, route, sid, body) ==
  /\ CanAccept(s)
  /\ LET sessionId == SessionIdOf(route, sid)
         start == [IdleExchange EXCEPT !.route = route, !.sid = sid, !.body = body]
     IN
     IF RequestJson(body).threw
     THEN /\ ex' = [ex EXCEPT ![s] = [start EXCEPT !.pc = "done",
                                                   !.http = ParseErrorResponse]]
          /\ UNCHANGED <<activeSessions, uuidCount, locationCoords, coordsLoaded, loadSettled, roundTrip, conns, mintedIds>>
     ELSE LET d == handleJsonRpc(sessionId, RequestJson(body).value,
                                 Uuid(uuidCount + 1)) IN
       CASE d.k = "rejects" ->
              /\ ex' = [ex EXCEPT ![s] = [start EXCEPT !.pc = "done",
                                                       !.rpc = Rejected,
                                                       !.http = Respond(route, Rejected)]]
              /\ UNCHANGED <<activeSessions, uuidCount, locationCoords, coordsLoaded, loadSettled, roundTrip, conns, mintedIds>>
         [] d.k = "returns" ->
              /\ d.drew => uuidCount < MaxUuid
              /\ activeSessions' = activeSessions \cup d.add
              /\ uuidCount' = IF d.drew THEN uuidCount + 1 ELSE uuidCount
              /\ ex' = [ex EXCEPT ![s] =
                          [start EXCEPT !.pc = "done",
                                        !.rpc = d.v,
                                        !.minted = IF d.drew THEN Uuid(uuidCount + 1)
                                                   ELSE Undefined,
                                        !.http = Respond(route, d.v)]]
              /\ mintedIds' = IF d.drew THEN Append(mintedIds, Uuid(uuidCount + 1))
                               ELSE mintedIds
              /\ UNCHANGED <<locationCoords, coordsLoaded, loadSettled, roundTrip, conns>>
         [] d.k = "awaits" ->
              /\ ex' = [ex EXCEPT ![s] =
                          IF d.tool = "search_assignments" /\ ~coordsLoaded
                          THEN [start EXCEPT !.pc = "coords", !.rpc = Pending,
                                             !.id = d.id, !.tool = d.tool,
                                             !.args = d.args, !.loads = 1]
                          ELSE [start EXCEPT !.pc = "upstream", !.rpc = Pending,
                                             !.id = d.id, !.tool = d.tool,
                                             !.args = d.args,
                                             !.calls = <<fetchAPI(d.tool, d.args,
                                                                  locationCoords)>>]]
              /\ UNCHANGED <<activeSessions, uuidCount, locationCoords, coordsLoaded, loadSettled, roundTrip, conns, mintedIds>>

\* The dataset fetch of loadLocationCoords settles: the table is built, the
\* flag set, and handleSearchAssignments goes on to its fetchAPI call.
CoordsReply(s, reply) ==
  /\ ex[s].pc = "coords"
  /\ LET r == LoadResult(locationCoords, reply) IN
     /\ locationCoords' = r.table
     /\ coordsLoaded' = (coordsLoaded \/ r.loaded)
     /\ loadSettled' = TRUE
     /\ ex' = [ex EXCEPT ![s].pc = "upstream",
                         ![s].load = IF r.loaded THEN "loaded" ELSE reply.k,
                         ![s].calls = <<fetchAPI(ex[s].tool, ex[s].args, r.table)>>]
  /\ UNCHANGED <<activeSessions, uuidCount, roundTrip, conns, mintedIds>>

\* The fetchAPI call of a handler settles: the handler finishes, the
\* dispatcher wraps its result and the route responds.
UpstreamReply(s, reply) ==
  /\ ex[s].pc = "upstream"
  /\ reply \in UpstreamReplies(ex[s].tool)
  /\ LET rpc == ToolsCallResume(ex[s].id, ex[s].tool, ex[s].args, reply) IN
     ex' = [ex EXCEPT ![s].pc = "done", ![s].rpc = rpc, ![s].reply = reply,
                      ![s].http = Respond(ex[s].route, rpc)]
  /\ UNCHANGED <<activeSessions, uuidCount, locationCoords, coordsLoaded, loadSettled, roundTrip, conns, mintedIds>>

\* GET /health is answered at once.
Health(s) ==
  /\ CanAccept(s)
  /\ ex' = [ex EXCEPT ![s] = [IdleExchange EXCEPT !.pc = "done", !.route = "/health",
                                                  !.http = HealthResponse]]
  /\ UNCHANGED <<activeSessions, uuidCount, locationCoords, coordsLoaded, loadSettled, roundTrip, conns, mintedIds>>

\* The caller has its response; the slot is free for the next exchange.
Close(s) ==
  /\ ex[s].pc = "done"
  /\ ex' = [ex EXCEPT ![s] = IdleExchange]
  /\ UNCHANGED <<activeSessions, uuidCount, locationCoords, coordsLoaded, loadSettled, roundTrip, conns, mintedIds>>

\* The frames a /sse stream carries: the endpoint event and ": ping".
EndpointEvent(sessionId) ==
  [event |-> "endpoint", data |-> Template(<<"/sse/message/", sessionId>>)]
PingFrame == [event |-> "comment", data |-> Str("ping")]

\* Mutant: the keep-alive frame is written before the endpoint event.
StreamStart_PingFirst(sessionId) ==
  [sessionId |-> sessionId, events |-> <<PingFrame, EndpointEvent(sessionId)>>,
   timer |-> TRUE, closed |-> FALSE, attempts |-> 0]

\* start(controller) of the /sse stream: the endpoint event is enqueued and
\* the interval set.  events are the frames written, timer whether the
\* interval is set, closed whether the peer has gone (an enqueue then
\* throws), attempts the ticks that have tried to write.
StreamStart(sessionId) ==
  [sessionId |-> sessionId, events |-> <<EndpointEvent(sessionId)>>,
   timer |-> TRUE, closed |-> FALSE, attempts |-> 0]

\* Mutant: the set is replaced by the new id.
ActiveSessionsAdd_Replaces(sessions, sessionId) == {sessionId}

\* activeSessions.add(sessionId)
ActiveSessionsAdd(sessions, sessionId) == sessions \cup {sessionId}

\* GET /sse: a fresh session id, the endpoint event, the keep-alive timer,
\* and the id recorded in activeSessions.
SseOpen ==
  /\ Len(conns) < MaxConns
  /\ uuidCount < MaxUuid
  /\ LET sessionId == Uuid(uuidCount + 1) IN
     /\ uuidCount' = uuidCount + 1
     /\ conns' = Append(conns, StreamStart(sessionId))
     /\ activeSessions' = ActiveSessionsAdd(activeSessions, sessionId)
  /\ UNCHANGED <<locationCoords, coordsLoaded, loadSettled, roundTrip, mintedIds, ex>>

\* Mutant: a failed write leaves the interval set.
KeepAlive_NeverCleared(conn) ==
  IF conn.closed
  THEN [conn EXCEPT !.attempts = @ + 1]
  ELSE [conn EXCEPT !.attempts = @ + 1, !.events = Append(@, PingFrame)]

\* The interval callback: enqueue ": ping"; when the enqueue throws,
\* clearInterval.
KeepAlive(conn) ==
  IF conn.closed
  THEN [conn EXCEPT !.attempts = @ + 1, !.timer = FALSE]
  ELSE [conn EXCEPT !.attempts = @ + 1, !.events = Append(@, PingFrame)]

\* The interval of stream c fires.
SseTick(c) ==
  /\ c \in DOMAIN conns
  /\ conns[c].timer
  /\ conns[c].attempts < MaxPings
  /\ conns' = [conns EXCEPT ![c] = KeepAlive(conns[c])]
  /\ UNCHANGED <<activeSessions, uuidCount, locationCoords, coordsLoaded, loadSettled, roundTrip, mintedIds, ex>>

\* The peer of stream c goes away: from now on an enqueue on it throws.
PeerCloses(c) ==
  /\ c \in DOMAIN conns
  /\ ~conns[c].closed
  /\ conns' = [conns EXCEPT ![c].closed = TRUE]
  /\ UNCHANGED <<activeSessions, uuidCount, locationCoords, coordsLoaded, loadSettled, roundTrip, mintedIds, ex>>

\* One exchange at a time, from its arrival to its response.
Next ==
  \/ \E route \in Routes : \E sid \in SessionInputs(route) : \E body \in Bodies :
       Receive("x1", route, sid, body)
  \/ \E reply \in CoordsReplies : CoordsReply("x1", reply)
  \/ \E reply \in SearchReplies \cup JobReplies : UpstreamReply("x1", reply)
  \/ Close("x1")
  \/ Health("x1")
  \/ SseOpen

Spec == Init /\ [][Next]_vars

\* Two POST /mcp exchanges side by side: slot x2 is sent the body slot x1
\* holds, under a session header of its own, while /sse streams are opened.
Request(method, params) ==
  Obj([id |-> Num(1), method |-> Str(method), params |-> params])
Call(name, arguments) ==
  Request("tools/call", Obj([name |-> Str(name), arguments |-> Obj(arguments)]))
PairBodies ==
  {Malformed,
   Obj([id |-> Undefined, method |-> Str("notifications/initialized"),
        params |-> Undefined]),
   Request("initialize", Undefined), Request("tools/list", Undefined),
   Request("ping", Undefined), Request("resources/list", Undefined),
   Call("get_assignment", [NoArgs EXCEPT !.id = Str("j1")]),
   Call("get_recent_assignments", [NoArgs EXCEPT !.limit = Num(21)])}

NextPair ==
  \/ \E sid \in SessionInputs("/mcp") : \E body \in PairBodies :
       Receive("x1", "/mcp", sid, body)
  \/ \E sid \in SessionInputs("/mcp") :
       /\ ex["x1"].pc # "idle"
       /\ Receive("x2", "/mcp", sid, ex["x1"].body)
  \/ \E s \in Slots : \E reply \in JobReplies : UpstreamReply(s, reply)
  \/ \E s \in Slots : Close(s)
  \/ SseOpen

SpecPair == Init /\ [][NextPair]_vars

\* Exchanges on both POST routes while /sse streams are opened, tick and
\* lose their peers.
SseBodies == PairBodies \cup {Call("delete_all", NoArgs)}

NextSse ==
  \/ \E route \in Routes : \E sid \in SessionInputs(route) : \E body \in SseBodies :
       Receive("x1", route, sid, body)
  \/ \E reply \in JobReplies : UpstreamReply("x1", reply)
  \/ Close("x1")
  \/ SseOpen
  \/ \E c \in 1..MaxConns : SseTick(c)
  \/ \E c \in 1..MaxConns : PeerCloses(c)

SpecSse == Init /\ [][NextSse]_vars

\* tools/call exchanges on POST /mcp over the argument objects a caller can
\* send: every mix of location, coordinates and radius, the values each
\* schema turns down, and objects with a key no schema declares.
LocationValues ==
  {Undefined, Str("Remote"), Str("distans"), Str("Stockholm"), Str(" Stockholm "),
   Str("Atlantis"), Str("constructor")}
GeoArguments ==
  {[NoArgs EXCEPT !.location = l, !.geo_lat = lat, !.geo_lon = lon, !.geo_radius = r] :
     l \in LocationValues,
     lat \in {Undefined, Num(0), Num(59)},
     lon \in {Undefined, Num(18)},
     r \in {Undefined, Num(0), Num(25)}}
AcceptedArguments ==
  {[NoArgs EXCEPT !.query = Str("python")], [NoArgs EXCEPT !.id = Str("j1")],
   [NoArgs EXCEPT !.limit = Num(5)], [NoArgs EXCEPT !.page = Num(2)]}
OutOfRangeArguments ==
  {[NoArgs EXCEPT !.limit = Num(0)], [NoArgs EXCEPT !.limit = Num(21)],
   [NoArgs EXCEPT !.page = Num(0)], [NoArgs EXCEPT !.sort = Str("newest")],
   [NoArgs EXCEPT !.seniority = Str("principal")]}
WrongTypeArguments ==
  {[NoArgs EXCEPT !.query = Num(7)], [NoArgs EXCEPT !.id = Num(7)],
   [NoArgs EXCEPT !.limit = Str("5")], [NoArgs EXCEPT !.geo_lat = Str("59")],
   [NoArgs EXCEPT !.skills = Str("go")], [NoArgs EXCEPT !.location = Null]}
UndeclaredKeyArguments ==
  {[NoArgs EXCEPT !.extra = Str("x")],
   [NoArgs EXCEPT !.query = Str("python"), !.extra = Str("x")],
   [NoArgs EXCEPT !.id = Str("j1"), !.extra = Str("x")]}
ArgsBodies ==
  {Call(n, a) :
     n \in ToolNames,
     a \in GeoArguments \cup AcceptedArguments \cup OutOfRangeArguments
            \cup WrongTypeArguments \cup UndeclaredKeyArguments}
  \cup {Request("tools/call", Obj([name |-> Str(n), arguments |-> Undefined])) :
          n \in ToolNames}

NextArgs ==
  \/ \E body \in ArgsBodies : Receive("x1", "/mcp", Null, body)
  \/ \E reply \in CoordsReplies : CoordsReply("x1", reply)
  \/ \E reply \in SearchReplies \cup JobReplies : UpstreamReply("x1", reply)
  \/ Close("x1")

SpecArgs == Init /\ [][NextArgs]_vars

\* Two search_assignments exchanges on POST /mcp whose loads of the dataset
\* overlap.  Each load fetches the dataset for itself, so the two fetches can
\* end differently: one failing, or the file republished between them.
RepublishedDataset ==
  <<[from |-> "lan", key |-> "01", info |-> Info(Str("Stockholms lan"), 60, 18)]>>
LoadReplies == CoordsReplies \cup {[k |-> "data", entries |-> RepublishedDataset]}
LoadBodies ==
  {Call("search_assignments", [NoArgs EXCEPT !.location = l]) :
     l \in {Undefined, Str("Stockholm"), Str("Uppsala")}}
LoadUpstreamReplies ==
  {ApiThrows,
   ApiReturns(Obj([success |-> Bool(TRUE), results |-> Arr(<<>>), facets |-> Facets]))}

NextLoad ==
  \/ \E s \in Slots : \E body \in LoadBodies : Receive(s, "/mcp", Null, body)
  \/ \E s \in Slots : \E reply \in LoadReplies : CoordsReply(s, reply)
  \/ \E s \in Slots : \E reply \in LoadUpstreamReplies : UpstreamReply(s, reply)
  \/ \E s \in Slots : Close(s)

SpecLoad == Init /\ [][NextLoad]_vars

\* get_available_filters over the facet lists upstream can return.
NextFilters ==
  \/ Receive("x1", "/mcp", Null, Call("get_available_filters", NoArgs))
  \/ \E reply \in SearchReplies \cup FacetReplies : UpstreamReply("x1", reply)
  \/ Close("x1")

SpecFilters == Init /\ [][NextFilters]_vars

\* search_assignments over upstream answers that list several postings, with
\* none, five and seven skills, for the first page and for a later one.
ResultBodies ==
  {Call("search_assignments", a) :
     a \in {NoArgs, [NoArgs EXCEPT !.page = Num(2)],
            [NoArgs EXCEPT !.query = Str("python"), !.page = Num(1)]}}

NextResults ==
  \/ \E body \in ResultBodies : Receive("x1", "/mcp", Null, body)
  \/ \E reply \in {[k |-> "fetchFails"], [k |-> "data", entries |-> GoodDataset]} :
       CoordsReply("x1", reply)
  \/ \E reply \in ResultReplies \cup {ApiThrows} : UpstreamReply("x1", reply)
  \/ Close("x1")

SpecResults == Init /\ [][NextResults]_vars

\* compact on its own, over objects of the shapes the handlers hand to it:
\* scalar fields that may be null or missing, facet entries, lists that may
\* hold a null, and objects nested in objects.
ScalarFields == {Null, Undefined, Num(0), Str(""), Str("go"), Bool(FALSE)}
EntryObjects ==
  {Obj([value |-> v, count |-> c]) : v \in {Null, Str("go")}, c \in {Null, Undefined, Num(0)}}
ListFields ==
  {Arr(<<>>), Arr(<<Str("go"), Null>>)} \cup {Arr(<<e>>) : e \in EntryObjects}
NestedFields == {Obj([job |-> e]) : e \in EntryObjects}
ResultObjects ==
  {Obj([id |-> a, results |-> b]) :
     a \in ScalarFields \cup EntryObjects,
     b \in ScalarFields \cup ListFields \cup NestedFields}

InitCompact ==
  /\ activeSessions = {}
  /\ uuidCount = 0
  /\ locationCoords = EmptyTable
  /\ coordsLoaded = FALSE
  /\ loadSettled = FALSE
  /\ roundTrip \in {[NoRoundTrip EXCEPT !.obj = o] : o \in ResultObjects}
  /\ conns = <<>>
  /\ mintedIds = <<>>
  /\ ex = [s \in Slots |-> IdleExchange]

\* text = compact(obj)
Serialize ==
  /\ roundTrip.obj # Undefined /\ roundTrip.text = Undefined
  /\ roundTrip' = [roundTrip EXCEPT !.text = compact(roundTrip.obj)]
  /\ UNCHANGED <<activeSessions, uuidCount, locationCoords, coordsLoaded, loadSettled,
                 conns, mintedIds, ex>>

\* The caller parses the text it was sent.
Parse ==
  /\ roundTrip.text # Undefined /\ roundTrip.parsed = Undefined
  /\ roundTrip' = [roundTrip EXCEPT !.parsed = JSONparse(roundTrip.text)]
  /\ UNCHANGED <<activeSessions, uuidCount, locationCoords, coordsLoaded, loadSettled,
                 conns, mintedIds, ex>>

NextCompact == Serialize \/ Parse

SpecCompact == InitCompact /\ [][NextCompact]_vars

\* ------------------------------------------------------------------ Claims
\* What the exchange in slot s was sent, when its body decoded to an object.
IsRequestObject(s) == ex[s].body.t = "object"
ReqId(s) == Get(ex[s].body, "id")
ReqMethod(s) == Get(ex[s].body, "method")
ReqParams(s) == Get(ex[s].body, "params")
Finished(s) == ex[s].pc = "done"
\* The dispatcher returned a response object in the exchange of slot s.
HasEnvelope(s) ==
  Finished(s) /\ ex[s].rpc \notin {NotInvoked, Pending, Rejected, Null}
IsKnownMethod(m) == \E k \in KnownMethods : m = Str(k)
IsRegisteredTool(n) == \E k \in ToolNames : n = Str(k)

\* C1: every request that carries an id, whatever its method, is answered by
\* a response object whose id is the request's id.
C1_IdEchoed ==
  \A s \in Slots :
    (Finished(s) /\ IsRequestObject(s) /\ ReqId(s) # Undefined) =>
      (HasEnvelope(s) /\ ex[s].rpc.id = ReqId(s))

\* C2: every request that carries no id, whatever its method, gets the
\* no-response sentinel from the dispatcher and no response body.
C2_NotificationNoResponse ==
  \A s \in Slots :
    (Finished(s) /\ IsRequestObject(s) /\ ReqId(s) = Undefined) =>
      (ex[s].rpc = Null /\ ex[s].http.body = Undefined)

\* C3: handleJsonRpc never rejects, whatever decoded value it is given.
C3_NeverRejects == \A s \in Slots : ex[s].rpc # Rejected

\* C4: every response object the dispatcher returns, as the route serializes
\* it, has exactly one of the keys result and error.
C4_ExactlyOneOfResultError ==
  \A s \in Slots :
    HasEnvelope(s) =>
      (("result" \in DOMAIN ex[s].http.body) # ("error" \in DOMAIN ex[s].http.body))
C4_Witness ==
  \E s \in Slots :
    /\ HasEnvelope(s)
    /\ ex[s].tool = "get_available_filters"
    /\ "result" \in DOMAIN ex[s].http.body
    /\ ex[s].http.body.result.content[1].text.t = "string"
    /\ "json" \in DOMAIN ex[s].http.body.result.content[1].text

\* C5: a method outside the method table is answered by an error envelope of
\* code -32601 whose message is "Method not found: " followed by the method.
C5_MethodNotFound ==
  \A s \in Slots :
    (Finished(s) /\ ex[s].rpc \notin {NotInvoked, Rejected}
       /\ ~IsKnownMethod(ReqMethod(s))) =>
      /\ HasEnvelope(s)
      /\ "error" \in DOMAIN ex[s].http.body
      /\ ex[s].http.body.error.code = -32601
      /\ ex[s].http.body.error.message =
           Template(<<"Method not found: ", TemplateString(ReqMethod(s))>>)
      /\ ex[s].http.status = 200
C5_Witness ==
  \E s \in Slots :
    /\ Finished(s)
    /\ ReqMethod(s) = Str("resources/list")
    /\ ex[s].http.body.error.message = Template(<<"Method not found: ", "resources/list">>)

\* C6: tools/call naming a tool that is not registered is answered by an
\* error envelope of code -32601 whose message holds "Unknown tool: " and the
\* name; no handler runs, no dataset load and no upstream call is issued.
UnregisteredCall(s) ==
  /\ ex[s].pc # "idle"
  /\ IsRequestObject(s)
  /\ ReqMethod(s) = Str("tools/call")
  /\ ReqParams(s).t = "object"
  /\ ~IsRegisteredTool(Get(ReqParams(s), "name"))
C6_UnknownTool ==
  \A s \in Slots :
    UnregisteredCall(s) =>
      /\ HasEnvelope(s)
      /\ "error" \in DOMAIN ex[s].http.body
      /\ ex[s].http.body.error.code = -32601
      /\ ex[s].http.body.error.message =
           Template(<<"Unknown tool: ", TemplateString(Get(ReqParams(s), "name"))>>)
      /\ ex[s].tool = ""
      /\ ex[s].calls = <<>>
      /\ ex[s].loads = 0
C6_Witness ==
  \E s \in Slots :
    /\ UnregisteredCall(s)
    /\ Get(ReqParams(s), "name") = Str("delete_all")
    /\ ex[s].http.body.error.message = Template(<<"Unknown tool: ", "delete_all">>)

\* C7: the ids initialize mints when none is supplied are pairwise distinct,
\* and each of them is in activeSessions.
C7_MintedDistinctAndRecorded ==
  /\ \A i, j \in DOMAIN mintedIds : i # j => mintedIds[i] # mintedIds[j]
  /\ \A i \in DOMAIN mintedIds : mintedIds[i] \in activeSessions
  /\ \A s \in Slots :
       (Finished(s) /\ IsRequestObject(s) /\ ReqMethod(s) = Str("initialize")
          /\ ~Truthy(SessionIdOf(ex[s].route, ex[s].sid))) =>
         /\ ex[s].minted # Undefined
         /\ ex[s].minted = mintedIds[Len(mintedIds)]
         /\ ex[s].rpc._sessionId = ex[s].minted
C7_Witness ==
  /\ Len(mintedIds) = 2
  /\ mintedIds[1] # mintedIds[2]
  /\ {mintedIds[1], mintedIds[2]} \subseteq activeSessions

\* C8: initialize on POST /mcp with a supplied (non-empty) session id S puts
\* S in the mcp-session-id response header, S is in activeSessions
\* afterwards, and no id is minted.
SuppliedInitialize(s) ==
  /\ Finished(s)
  /\ ex[s].route = "/mcp"
  /\ IsRequestObject(s)
  /\ ReqMethod(s) = Str("initialize")
  /\ IsString(ex[s].sid) /\ ex[s].sid # Str("")
C8_SuppliedIdReused ==
  \A s \in Slots :
    SuppliedInitialize(s) =>
      /\ ex[s].http.sessionHeader = ex[s].sid
      /\ ex[s].sid \in activeSessions
      /\ ex[s].rpc._sessionId = ex[s].sid
      /\ ex[s].minted = Undefined
C8_Witness ==
  \E s \in Slots :
    /\ SuppliedInitialize(s)
    /\ ex[s].sid = Str("c1")
    /\ ex[s].http.sessionHeader = Str("c1")
    /\ Str("c1") \in activeSessions

\* C9: a body that is not well-formed JSON, on either POST route, is answered
\* with status 400 and an error envelope of code -32700 and id null, and the
\* dispatcher is not invoked.
C9_ParseError ==
  \A s \in Slots :
    (ex[s].pc # "idle" /\ ex[s].body = Malformed) =>
      /\ Finished(s)
      /\ ex[s].rpc = NotInvoked
      /\ ex[s].http.status = 400
      /\ DOMAIN ex[s].http.body = {"jsonrpc", "id", "error"}
      /\ ex[s].http.body.id = Null
      /\ ex[s].http.body.error.code = -32700
C9_Witness ==
  \E s \in Slots :
    /\ ex[s].route = "/sse/message"
    /\ ex[s].body = Malformed
    /\ ex[s].http.status = 400

\* C10: on POST /mcp an exchange that has ended sent exactly one response:
\* status 204 with no body when the dispatcher returned null, and one
\* JSON-RPC envelope otherwise; an exchange that has not ended sent none.
C10_OneOutboundPerInbound ==
  \A s \in Slots :
    ex[s].route = "/mcp" =>
      /\ Finished(s) <=> ex[s].http.sent
      /\ Finished(s) =>
           IF ex[s].rpc = Null
           THEN ex[s].http.status = 204 /\ ex[s].http.body = Undefined
           ELSE /\ ex[s].http.body # Undefined
                /\ ex[s].http.body # Null
                /\ ex[s].http.body.jsonrpc = Str("2.0")
                /\ ex[s].http.status \in {200, 400}
C10_Witness ==
  \E s \in Slots :
    /\ Finished(s)
    /\ ex[s].route = "/mcp"
    /\ ex[s].rpc = Null
    /\ ex[s].http.status = 204

\* Whether the exchange in slot s carries an initialize request.
IsInitialize(s) == IsRequestObject(s) /\ ReqMethod(s) = Str("initialize")

\* C11: two POST /mcp exchanges that carry the same body, not an initialize
\* request, and whose upstream calls were answered alike, send the same
\* response, whatever session header each carried and whatever the session
\* set held when each arrived.
C11_SessionNeverRequired ==
  (/\ Finished("x1") /\ Finished("x2")
   /\ ex["x1"].body = ex["x2"].body
   /\ ~IsInitialize("x1")
   /\ ex["x1"].reply = ex["x2"].reply)
  => ex["x1"].http = ex["x2"].http

\* Two finished tools/list exchanges, one without a session header and one
\* under an id the server has recorded.
C11_Witness ==
  /\ Finished("x1") /\ Finished("x2")
  /\ IsRequestObject("x1") /\ ReqMethod("x1") = Str("tools/list")
  /\ ex["x1"].body = ex["x2"].body
  /\ ex["x1"].sid = Null
  /\ ex["x2"].sid \in activeSessions
  /\ ex["x1"].http = ex["x2"].http
  /\ ex["x1"].http.status = 200

\* C12: every /sse stream carries the endpoint event first, its data the
\* message URL that ends in the stream's own session id, an id no other
\* stream has, and after it nothing but ping frames: no ping comes first and
\* no reply of a POST /sse/message exchange is written to the stream.
C12_EndpointThenPings ==
  \A c \in DOMAIN conns :
    /\ Len(conns[c].events) >= 1
    /\ conns[c].events[1].event = "endpoint"
    /\ conns[c].events[1].data = Template(<<"/sse/message/", conns[c].sessionId>>)
    /\ \A i \in 2..Len(conns[c].events) :
         conns[c].events[i] = [event |-> "comment", data |-> Str("ping")]
    /\ \A d \in DOMAIN conns : d # c => conns[d].sessionId # conns[c].sessionId

\* A stream that has written two pings while a POST /sse/message exchange
\* under its session id was answered with an envelope.
C12_Witness ==
  /\ Len(conns) >= 1
  /\ Len(conns[1].events) = 3
  /\ Finished("x1")
  /\ ex["x1"].route = "/sse/message"
  /\ ex["x1"].sid = conns[1].sessionId
  /\ ex["x1"].http.sent /\ ex["x1"].http.status = 200

\* What one step may do to a stream: nothing once its timer is stopped; a
\* tick is one attempt, which writes a ping while the peer is there and stops
\* the timer when the write fails; a timer stops only on its own stream's
\* failed attempt.
C13_StreamStep(a, b) ==
  /\ ~a.timer => b = a
  /\ b.attempts # a.attempts =>
       /\ a.timer
       /\ b.attempts = a.attempts + 1
       /\ IF a.closed THEN ~b.timer /\ b.events = a.events
          ELSE b.timer /\ b.events = Append(a.events, [event |-> "comment",
                                                       data |-> Str("ping")])
  /\ b.timer # a.timer => b.attempts # a.attempts

\* C13: while no write on a stream has failed its timer runs and every tick
\* has written a ping; the first failed write stops that stream's timer, no
\* attempt is made on it afterwards, and the timers of the other streams are
\* left as they were.
C13_PingUntilWriteFails ==
  /\ [](\A c \in DOMAIN conns :
          IF conns[c].timer THEN Len(conns[c].events) = 1 + conns[c].attempts
          ELSE conns[c].closed /\ Len(conns[c].events) = conns[c].attempts)
  /\ [][\A c \in DOMAIN conns : C13_StreamStep(conns[c], conns'[c])]_vars

\* One stream whose timer a failed write has stopped, beside one that has
\* gone on to write a ping.
C13_Witness ==
  /\ Len(conns) = 2
  /\ ~conns[1].timer /\ conns[1].attempts = 2
  /\ conns[2].timer /\ Len(conns[2].events) >= 2

\* C14: no step removes an id from the session set.
C14_SessionSetOnlyGrows == [][activeSessions \subseteq activeSessions']_vars

\* The id of an initialize and the ids of two streams are all in the set
\* after the keep-alive of a stream has stopped.
C14_Witness ==
  /\ Len(conns) >= 1
  /\ ~conns[1].timer
  /\ conns[1].sessionId \in activeSessions
  /\ Str("c1") \in activeSessions
  /\ Cardinality(activeSessions) >= 3

\* C15: a step that changes the session set either opens a /sse stream or
\* takes in an initialize request that is answered with a result; no other
\* exchange, no exchange answered with an error envelope and no keep-alive
\* tick changes it.
C15_OnlyInitializeAndSseOpen ==
  [][activeSessions' # activeSessions =>
       \/ Len(conns') = Len(conns) + 1
       \/ \E s \in Slots :
            /\ ex[s].pc = "idle"
            /\ ex'[s].pc = "done"
            /\ ex'[s].body.t = "object"
            /\ Get(ex'[s].body, "method") = Str("initialize")
            /\ "result" \in DOMAIN ex'[s].rpc]_vars

\* An exchange answered with an error envelope, after a tick, with the set
\* holding what an initialize and a stream have put there.
C15_Witness ==
  /\ HasEnvelope("x1")
  /\ "error" \in DOMAIN ex["x1"].rpc
  /\ Len(conns) >= 1 /\ conns[1].attempts >= 1
  /\ activeSessions = {Str("c1"), conns[1].sessionId}

\* The tools/call request of the exchange in slot s: its tool name, its
\* arguments as sent, and the query parameters of its upstream request.
IsToolsCall(s) ==
  /\ ex[s].pc # "idle"
  /\ IsRequestObject(s)
  /\ ReqMethod(s) = Str("tools/call")
  /\ ReqParams(s).t = "object"
CallName(s) == Get(ReqParams(s), "name")
CallArgs(s) ==
  LET a == Get(ReqParams(s), "arguments") IN IF a.t = "object" THEN a.f ELSE NoArgs
CallsUpstream(s, name) ==
  IsToolsCall(s) /\ CallName(s) = Str(name) /\ ex[s].calls # <<>>
Sent(s) == ex[s].calls[1].query
NoGeoSent(q) == DOMAIN q \cap {"geo_lat", "geo_lon", "geo_radius"} = {}
NumberString(n) == [t |-> "string", num |-> n]

\* The validation failures of each tool: a required field missing or not a
\* string, a field of the wrong type, limit outside 1..20, page below 1,
\* sort or seniority outside its enum.
C16_NotAString(v) == v.t # "string"
C16_NotANumberIn(v, lo, hi) == v # Undefined /\ (v.t # "number" \/ v.v < lo \/ v.v > hi)
C16_NotOneOf(v, S) == v # Undefined /\ (v.t # "string" \/ v.v \notin S)
C16_Fails(name, a) ==
  \/ name = Str("search") /\ C16_NotAString(a.query)
  \/ name \in {Str("fetch"), Str("get_assignment")} /\ C16_NotAString(a.id)
  \/ name = Str("get_recent_assignments") /\ C16_NotANumberIn(a.limit, 1, 20)
  \/ /\ name = Str("search_assignments")
     /\ \/ C16_NotANumberIn(a.limit, 1, 20)
        \/ a.page # Undefined /\ (a.page.t # "number" \/ a.page.v < 1)
        \/ C16_NotOneOf(a.sort, {"quality", "posted", "deadline"})
        \/ C16_NotOneOf(a.seniority, {"junior", "regular", "senior", "lead"})
        \/ a.query # Undefined /\ C16_NotAString(a.query)
        \/ a.location # Undefined /\ C16_NotAString(a.location)
        \/ a.geo_lat # Undefined /\ a.geo_lat.t # "number"
        \/ a.skills # Undefined /\ a.skills.t # "array"

\* C16: a tools/call whose arguments fail validation is answered with an
\* error envelope of code -32603, and its exchange has sent no upstream
\* request and started no load of the location table.
C16_ValidatedBeforeHandler ==
  \A s \in Slots :
    (IsToolsCall(s) /\ C16_Fails(CallName(s), CallArgs(s))) =>
      /\ HasEnvelope(s)
      /\ "error" \in DOMAIN ex[s].rpc
      /\ ex[s].rpc.error.code = -32603
      /\ ex[s].calls = <<>>
      /\ ex[s].loads = 0

\* search_assignments called with limit 21 has been answered -32603 without
\* a load or an upstream request.
C16_Witness ==
  /\ IsToolsCall("x1")
  /\ CallName("x1") = Str("search_assignments")
  /\ CallArgs("x1").limit = Num(21)
  /\ HasEnvelope("x1")
  /\ ex["x1"].rpc.error.code = -32603
  /\ ex["x1"].calls = <<>> /\ ex["x1"].loads = 0

\* C17: a tools/call whose arguments carry a key the tool's schema does not
\* declare is answered with an error and the tool does not run: no load of
\* the location table, no upstream request.
C17_UndeclaredKeyRejected ==
  \A s \in Slots :
    (IsToolsCall(s) /\ IsRegisteredTool(CallName(s))
       /\ CallArgs(s).extra # Undefined) =>
      /\ HasEnvelope(s)
      /\ "error" \in DOMAIN ex[s].rpc
      /\ ex[s].calls = <<>>
      /\ ex[s].loads = 0

\* C18: search_assignments called with a location and no coordinates sends
\* the location as a string and no geo parameter when it is a remote-work
\* token or is not in the table, and sends the table's coordinates with the
\* radius (50 when none is supplied) and no location when it is in the table.
C18_LocationResolution ==
  \A s \in Slots :
    LET a == CallArgs(s) IN
    (/\ CallsUpstream(s, "search_assignments")
     /\ a.location.t = "string" /\ a.location # Str("")
     /\ a.geo_lat = Undefined /\ a.geo_lon = Undefined) =>
      LET n == Trim(ToLowerCase(a.location.v))
          q == Sent(s) IN
      IF n \notin {"remote", "distans"} /\ n \in DOMAIN locationCoords
      THEN /\ "location" \notin DOMAIN q
           /\ {"geo_lat", "geo_lon", "geo_radius"} \subseteq DOMAIN q
           /\ q.geo_lat = NumberString(locationCoords[n].lat.v)
           /\ q.geo_lon = NumberString(locationCoords[n].lon.v)
           /\ a.geo_radius = Undefined => q.geo_radius = NumberString(50)
      ELSE /\ "location" \in DOMAIN q
           /\ q.location = a.location
           /\ NoGeoSent(q)

\* C19: search_assignments called with both coordinates, whatever numbers
\* they are, sends exactly them with the supplied radius (50 when none is
\* supplied) and no location.
C19_ExplicitCoordinates ==
  \A s \in Slots :
    LET a == CallArgs(s) IN
    (/\ CallsUpstream(s, "search_assignments")
     /\ a.geo_lat.t = "number" /\ a.geo_lon.t = "number") =>
      LET q == Sent(s) IN
      /\ "location" \notin DOMAIN q
      /\ {"geo_lat", "geo_lon", "geo_radius"} \subseteq DOMAIN q
      /\ q.geo_lat = NumberString(a.geo_lat.v)
      /\ q.geo_lon = NumberString(a.geo_lon.v)
      /\ q.geo_radius = NumberString(IF a.geo_radius = Undefined THEN 50
                                     ELSE a.geo_radius.v)

\* C20: a search_assignments call with a location whose load of the dataset
\* ended in a fetch or parse failure goes on to one upstream search that
\* carries the location as a string and no geo parameter, and an upstream
\* answer is returned as a result.
C20_LoadFailureFallsBack ==
  \A s \in Slots :
    LET a == CallArgs(s) IN
    (/\ IsToolsCall(s) /\ CallName(s) = Str("search_assignments")
     /\ ex[s].load \in {"fetchFails", "parseFails"}
     /\ a.location.t = "string" /\ a.location # Str("")
     /\ a.geo_lat = Undefined /\ a.geo_lon = Undefined) =>
      /\ Len(ex[s].calls) = 1
      /\ "location" \in DOMAIN Sent(s)
      /\ Sent(s).location = a.location
      /\ NoGeoSent(Sent(s))
      /\ (Finished(s) /\ ex[s].reply.ok) => "result" \in DOMAIN ex[s].rpc

\* The result text of the finished tools/call exchange in slot s.
ResultText(s) == ex[s].rpc.result.content[1].text
HasResult(s) ==
  HasEnvelope(s) /\ "result" \in DOMAIN ex[s].rpc /\ "error" \notin DOMAIN ex[s].rpc
JobMissing(s) == ex[s].reply.ok /\ Get(ex[s].reply.data, "job") = Undefined

\* C21: get_assignment for an id is answered with a result whose text is
\* "Assignment '<id>' not found." both when the upstream reply carries no job
\* and when the upstream call throws: one message for the two cases.
C21_NotFoundText ==
  \A s \in Slots :
    (/\ Finished(s) /\ IsToolsCall(s)
     /\ CallName(s) = Str("get_assignment")
     /\ CallArgs(s).id.t = "string"
     /\ (~ex[s].reply.ok \/ JobMissing(s))) =>
      /\ HasResult(s)
      /\ ResultText(s) = [t |-> "string",
                           parts |-> <<"Assignment '", CallArgs(s).id.v, "' not found.">>]

\* A get_assignment exchange whose upstream call threw has been answered
\* with the not-found text.
C21_Witness ==
  /\ Finished("x1") /\ IsToolsCall("x1")
  /\ CallName("x1") = Str("get_assignment")
  /\ CallArgs("x1").id = Str("j1")
  /\ ~ex["x1"].reply.ok
  /\ HasResult("x1")
  /\ ResultText("x1").parts[2] = "j1"

\* C22: fetch with a string id is never answered with an error envelope;
\* without a job upstream the payload is the stand-in titled "Not found",
\* after a failed upstream call the stand-in titled "Error", each with the
\* requested id and an empty url.
C22_FetchStandIns ==
  \A s \in Slots :
    (/\ Finished(s) /\ IsToolsCall(s)
     /\ CallName(s) = Str("fetch")
     /\ CallArgs(s).id.t = "string") =>
      /\ HasResult(s)
      /\ ~ex[s].reply.ok =>
           /\ ResultText(s).json.f.title = Str("Error")
           /\ ResultText(s).json.f.url = Str("")
           /\ ResultText(s).json.f.id = CallArgs(s).id
      /\ JobMissing(s) =>
           /\ ResultText(s).json.f.title = Str("Not found")
           /\ ResultText(s).json.f.url = Str("")
           /\ ResultText(s).json.f.id = CallArgs(s).id

\* A fetch exchange whose upstream call threw has been answered with the
\* "Error" stand-in.
C22_Witness ==
  /\ Finished("x1") /\ IsToolsCall("x1")
  /\ CallName("x1") = Str("fetch")
  /\ CallArgs("x1").id = Str("j1")
  /\ ~ex["x1"].reply.ok
  /\ HasResult("x1")
  /\ ResultText("x1").json.f.title = Str("Error")

\* The upstream call of the exchange in slot s has settled, and how.
Settled(s) == Finished(s) /\ IsToolsCall(s) /\ ex[s].calls # <<>>
CallFailed(s) == ~ex[s].reply.ok
Unsuccessful(s) == ex[s].reply.ok /\ ~Truthy(Get(ex[s].reply.data, "success"))
NoResults(s) == ex[s].reply.ok /\ Len(Get(ex[s].reply.data, "results").v) = 0

\* C23: search is answered with a result holding an empty result list,
\* never an error envelope, when upstream returns no results, returns
\* success=false, or the upstream call fails.
C23_SearchEmptyOnFailure ==
  \A s \in Slots :
    (/\ Settled(s)
     /\ CallName(s) = Str("search")
     /\ (CallFailed(s) \/ Unsuccessful(s) \/ NoResults(s))) =>
      /\ HasResult(s)
      /\ ResultText(s).json.f.results = Arr(<<>>)

\* The plain failure message of each list/aggregate tool.
FailureMessage(name) ==
  CASE name = Str("search_assignments") -> Str("Search failed.")
    [] name = Str("get_recent_assignments") -> Str("Failed to fetch recent assignments.")
    [] name = Str("get_available_filters") -> Str("Failed to fetch filters.")

\* C24: search_assignments, get_recent_assignments and get_available_filters
\* answer every upstream failure (success=false or a failed call) with a
\* result whose text is the tool's failure message, never an error envelope.
C24_PlainFailureMessage ==
  \A s \in Slots :
    (/\ Settled(s)
     /\ CallName(s) \in {Str("search_assignments"), Str("get_recent_assignments"),
                          Str("get_available_filters")}
     /\ (CallFailed(s) \/ Unsuccessful(s))) =>
      /\ HasResult(s)
      /\ ResultText(s) = FailureMessage(CallName(s))

\* C25: an exchange has sent at most one request to the upstream job API,
\* one and no more after a failed call, and none when it is not a tools/call,
\* names no registered tool, or its arguments fail validation.
C25_AtMostOneUpstreamCall ==
  \A s \in Slots :
    /\ Len(ex[s].calls) <= 1
    /\ (Settled(s) /\ CallFailed(s)) => Len(ex[s].calls) = 1
    /\ (/\ ex[s].pc # "idle"
        /\ \/ ~IsToolsCall(s)
           \/ ~IsRegisteredTool(CallName(s))
           \/ C16_Fails(CallName(s), CallArgs(s))) => ex[s].calls = <<>>

\* A tools/call exchange whose one upstream call failed has been answered
\* with that one call sent.
C25_Witness ==
  /\ Settled("x1")
  /\ CallFailed("x1")
  /\ Len(ex["x1"].calls) = 1
  /\ ex["x1"].http.sent

\* What the exchange in slot t can do next: be taken in when its slot is
\* free, and go on when its own dataset fetch or upstream call answers.
CanGoOn(t) ==
  /\ ex[t].pc = "idle" =>
       \A body \in PairBodies : ENABLED Receive(t, "/mcp", Str("c1"), body)
  /\ ex[t].pc = "coords" =>
       \A reply \in CoordsReplies : ENABLED CoordsReply(t, reply)
  /\ ex[t].pc = "upstream" =>
       \A reply \in UpstreamReplies(ex[t].tool) : ENABLED UpstreamReply(t, reply)

\* C26: while an exchange waits on an upstream call that has not answered,
\* it has sent no response, and every other exchange can still be taken in
\* and finished: nothing it needs waits for the blocked one.
C26_ExchangesIndependent ==
  \A s \in Slots :
    ex[s].pc = "upstream" =>
      /\ ~ex[s].http.sent
      /\ \A t \in Slots \ {s} : CanGoOn(t)

\* Slot x1 still waits on its upstream call while slot x2, a tools/call
\* whose upstream answered, has its response.
C26_Witness ==
  /\ ex["x1"].pc = "upstream"
  /\ ~ex["x1"].http.sent
  /\ Settled("x2")
  /\ HasResult("x2")
  /\ ex["x2"].http.sent /\ ex["x2"].http.status = 200

\* The session id of the exchange in slot s: the one initialize chose, or
\* the one the route read from the request.
SessionOf(s) ==
  IF "_sessionId" \in DOMAIN ex[s].rpc THEN ex[s].rpc._sessionId
  ELSE SessionIdOf(ex[s].route, ex[s].sid)

\* C27: no body sent by POST /mcp or POST /sse/message has a _sessionId key,
\* at its top level or in its result, or holds the session id as the value
\* of a member; the
\* id initialize chose is sent in the mcp-session-id header on /mcp and not
\* at all on /sse/message.
C27_SessionIdOutOfBand ==
  \A s \in Slots :
    (/\ Finished(s)
     /\ ex[s].route \in {"/mcp", "/sse/message"}
     /\ ex[s].http.sent
     /\ ex[s].http.body # Undefined) =>
      /\ "_sessionId" \notin DOMAIN ex[s].http.body
      /\ "result" \in DOMAIN ex[s].http.body =>
           "_sessionId" \notin DOMAIN ex[s].http.body.result
      /\ SessionOf(s) \notin {Null, Undefined} =>
           \A k \in DOMAIN ex[s].http.body : ex[s].http.body[k] # SessionOf(s)
      /\ "_sessionId" \in DOMAIN ex[s].rpc =>
           ex[s].http.sessionHeader =
             IF ex[s].route = "/mcp" THEN ex[s].rpc._sessionId ELSE Undefined

\* An initialize on /sse/message has chosen the caller's id and answered
\* with a body that does not carry it.
C27_Witness ==
  /\ Finished("x1")
  /\ ex["x1"].route = "/sse/message"
  /\ IsInitialize("x1")
  /\ ex["x1"].rpc._sessionId = Str("c1")
  /\ ex["x1"].http.sent
  /\ "result" \in DOMAIN ex["x1"].http.body
  /\ "_sessionId" \notin DOMAIN ex["x1"].http.body

\* out holds the entries of inp with the highest counts, as many as ten:
\* each is an entry of inp and none left out has a higher count than one
\* kept.
TopTenByCount(out, inp) ==
  /\ Len(out) = (IF Len(inp) < 10 THEN Len(inp) ELSE 10)
  /\ \A i \in DOMAIN out : \E j \in DOMAIN inp : out[i] = inp[j]
  /\ \A j \in DOMAIN inp :
       (\A i \in DOMAIN out : out[i] # inp[j]) =>
         \A i \in DOMAIN out : out[i].f.count.v >= inp[j].f.count.v

\* The facet of the upstream reply and of the returned filters; a facet
\* missing upstream is left out of the filters.
FacetIn(s, name) == Get(Get(ex[s].reply.data, "facets"), name)
FacetOut(s, name) == Get(ResultText(s).json, name)

\* C28: the filters get_available_filters returns hold, for roles, locations
\* and companies, the ten entries of the upstream facet with the highest
\* counts, and the upstream seniority_levels and employment_types as they
\* came.
C28_TopTenFacets ==
  \A s \in Slots :
    (/\ Settled(s)
     /\ CallName(s) = Str("get_available_filters")
     /\ ex[s].reply.ok /\ Truthy(Get(ex[s].reply.data, "success"))) =>
      /\ HasResult(s)
      /\ \A name \in {"roles", "locations", "companies"} :
           IF FacetIn(s, name) = Undefined THEN FacetOut(s, name) = Undefined
           ELSE TopTenByCount(FacetOut(s, name).v, FacetIn(s, name).v)
      /\ \A name \in {"seniority_levels", "employment_types"} :
           FacetOut(s, name) = FacetIn(s, name)

\* The exchange in slot s was answered "Unknown tool: ...".
AnsweredUnknownTool(s) ==
  /\ HasEnvelope(s)
  /\ "error" \in DOMAIN ex[s].rpc
  /\ "parts" \in DOMAIN ex[s].rpc.error.message
  /\ ex[s].rpc.error.message.parts[1] = "Unknown tool: "
Range(q) == {q[i] : i \in DOMAIN q}

\* C29: the names tools/list returns, the names GET /health lists, and the
\* names a tools/call is not answered "Unknown tool" for, are one set of six
\* names.
C29_OneToolSet ==
  LET six == {"search", "fetch", "search_assignments", "get_assignment",
              "get_available_filters", "get_recent_assignments"} IN
  \A s \in Slots :
    Finished(s) =>
      /\ ex[s].route = "/health" =>
           Range(ex[s].http.body.tools) = six /\ Len(ex[s].http.body.tools) = 6
      /\ (IsRequestObject(s) /\ ReqMethod(s) = Str("tools/list")) =>
           Range(ex[s].rpc.result.tools) = six /\ Len(ex[s].rpc.result.tools) = 6
      /\ IsToolsCall(s) =>
           (AnsweredUnknownTool(s) <=>
              ~(CallName(s).t = "string" /\ CallName(s).v \in six))

\* GET /health has been answered with its list of tools.
C29_Witness ==
  /\ Finished("x1")
  /\ ex["x1"].route = "/health"
  /\ ex["x1"].http.sent /\ ex["x1"].http.status = 200
  /\ Len(ex["x1"].http.body.tools) = 6

\* C30: once a run of loadLocationCoords has ended, in success or in failure,
\* no step starts a fetch of the dataset and no step changes the table.
C30_LoadIdempotent ==
  [][loadSettled =>
       /\ locationCoords' = locationCoords
       /\ \A s \in Slots : ~(ex[s].pc # "coords" /\ ex'[s].pc = "coords")]_vars

\* C31: after a load of the dataset that failed (the fetch failed, the body
\* did not parse, or an entry made the build throw part-way) the table is
\* empty and the flag is false.
C31_FailedLoadLeavesEmpty ==
  \A s \in Slots :
    ex[s].load \in {"fetchFails", "parseFails", "data"} =>
      /\ locationCoords = EmptyTable
      /\ ~coordsLoaded

\* C32: once the table is marked loaded no step writes it again, whatever
\* the order in which the steps of concurrent search_assignments exchanges
\* are taken.
C32_LoadedTableImmutable ==
  [][coordsLoaded => locationCoords' = locationCoords]_vars

\* The tables a load that ran to completion on an empty table leaves, and
\* the tables any single load leaves.
CompleteTables ==
  {LoadResult(EmptyTable, r).table : r \in {q \in LoadReplies : LoadResult(EmptyTable, q).loaded}}
SingleLoadTables == {LoadResult(EmptyTable, r).table : r \in LoadReplies}
\* The exchange in slot s goes on from its load to its lookup in this step.
C33_Lookup(s) ==
  /\ ex[s].pc # "upstream" /\ ex'[s].pc = "upstream"
  /\ ex'[s].tool = "search_assignments"

\* C33: every search_assignments exchange taken in while the flag is false
\* fetches the dataset, the table an exchange reads for its lookup is empty
\* or complete, and once no load is in flight the table is one a single load
\* leaves.
C33_LoadRace ==
  /\ [][\A s \in Slots :
          /\ (ex[s].pc = "idle" /\ ex'[s].tool = "search_assignments" /\ ~coordsLoaded) =>
               (ex'[s].pc = "coords" /\ ex'[s].loads = 1)
          /\ C33_Lookup(s) => locationCoords' \in {EmptyTable} \cup CompleteTables]_vars
  /\ []((\A s \in Slots : ex[s].pc # "coords") => locationCoords \in SingleLoadTables)

\* No key of an object in v, at any depth, has a null value.
RECURSIVE NoNullKeys(_)
NoNullKeys(v) ==
  CASE v.t = "object" ->
         \A k \in DOMAIN v.f : v.f[k] \notin {Null, Undefined} /\ NoNullKeys(v.f[k])
    [] v.t = "array" -> \A i \in DOMAIN v.v : NoNullKeys(v.v[i])
    [] OTHER -> TRUE
\* Every key of o whose value is neither null nor missing is a key of p with
\* the same value, key by key in nested objects and element by element in
\* lists; p has no key o lacks.
RECURSIVE Survives(_, _)
Survives(o, p) ==
  CASE o.t = "object" ->
         /\ p.t = "object"
         /\ DOMAIN p.f \subseteq DOMAIN o.f
         /\ \A k \in DOMAIN o.f :
              o.f[k] \notin {Null, Undefined} =>
                k \in DOMAIN p.f /\ Survives(o.f[k], p.f[k])
    [] o.t = "array" ->
         /\ p.t = "array"
         /\ DOMAIN p.v = DOMAIN o.v
         /\ \A i \in DOMAIN o.v :
              IF o.v[i] \in {Null, Undefined} THEN p.v[i] = Null
              ELSE Survives(o.v[i], p.v[i])
    [] OTHER -> p = o

\* C34: parsing compact(obj) yields an object in which no key has a null
\* value, at any depth, and in which every key of obj whose value is not null
\* is present with its value unchanged, recursively for nested objects.
C34_CompactRoundTrip ==
  roundTrip.parsed # Undefined =>
    /\ NoNullKeys(roundTrip.parsed)
    /\ Survives(roundTrip.obj, roundTrip.parsed)

\* An object with a null key, a kept key and a list whose entry has a null
\* key has gone through compact and back.
C34_Witness ==
  /\ roundTrip.parsed # Undefined
  /\ roundTrip.obj.f.id = Null
  /\ roundTrip.obj.f.results = Arr(<<Obj([value |-> Str("go"), count |-> Null])>>)
  /\ roundTrip.parsed = Obj([results |-> Arr(<<Obj([value |-> Str("go")])>>)])

\* C35: a response of POST /mcp carries the mcp-session-id header exactly
\* when the request was an initialize, its value the id supplied in the
\* request header or else the id minted; no response of POST /sse/message
\* carries it.
C35_HeaderOnInitializeOnly ==
  \A s \in Slots :
    (Finished(s) /\ ex[s].http.sent /\ ex[s].route \in {"/mcp", "/sse/message"}) =>
      LET h == ex[s].http.sessionHeader IN
      IF ex[s].route = "/mcp"
      THEN /\ h # Undefined <=> IsInitialize(s)
           /\ IsInitialize(s) =>
                /\ h = (IF Truthy(ex[s].sid) THEN ex[s].sid ELSE ex[s].minted)
                /\ h \in activeSessions
      ELSE h = Undefined

\* POST /mcp has answered an initialize that came without a session header,
\* with the minted id in the response header.
C35_Witness ==
  /\ Finished("x1")
  /\ ex["x1"].route = "/mcp"
  /\ IsInitialize("x1")
  /\ ex["x1"].sid = Null
  /\ ex["x1"].http.sessionHeader = Uuid(1)

\* C36: a body that is well-formed JSON, on either POST route, is answered
\* with what the dispatcher returned and never with the parse-error envelope.
C36_ParseErrorOnlyForMalformed ==
  \A s \in Slots :
    (/\ Finished(s) /\ ex[s].http.sent
     /\ ex[s].route \in {"/mcp", "/sse/message"}
     /\ ex[s].body # Malformed) =>
      /\ ex[s].rpc \notin {NotInvoked, Rejected}
      /\ ex[s].http # ParseErrorResponse
      /\ ex[s].http = Respond(ex[s].route, ex[s].rpc)

\* C37: the parameters of every upstream search search_assignments issues
\* hold either all three of geo_lat, geo_lon and geo_radius or none of them,
\* and never a location beside them.
C37_GeoAllOrNone ==
  \A s \in Slots :
    CallsUpstream(s, "search_assignments") =>
      LET q == Sent(s)
          geo == DOMAIN q \cap {"geo_lat", "geo_lon", "geo_radius"} IN
      /\ geo \in {{}, {"geo_lat", "geo_lon", "geo_radius"}}
      /\ ~("location" \in DOMAIN q /\ geo # {})

\* A call that named a location and gave both coordinates has sent the three
\* geo parameters and no location.
C37_Witness ==
  /\ CallsUpstream("x1", "search_assignments")
  /\ CallArgs("x1").location = Str("Stockholm")
  /\ CallArgs("x1").geo_lat = Num(59) /\ CallArgs("x1").geo_lon = Num(18)
  /\ DOMAIN Sent("x1") \cap {"geo_lat", "geo_lon", "geo_radius", "location"}
       = {"geo_lat", "geo_lon", "geo_radius"}

\* C38: POST /sse/message hands every decoded message to the dispatcher and
\* answers with what it returned, whatever id the path holds; an initialize
\* taken in there under a non-empty id is answered with a result and puts
\* that id in the session set.
C38_AnyPathIdDispatched ==
  /\ [](\A s \in Slots :
          (Finished(s) /\ ex[s].route = "/sse/message" /\ ex[s].body # Malformed) =>
            /\ ex[s].rpc # NotInvoked
            /\ IsRequestObject(s) => ex[s].rpc # Rejected
            /\ ex[s].http = SseMessageResponse(ex[s].rpc))
  /\ [][\A s \in Slots :
          (/\ ex[s].pc = "idle" /\ ex'[s].pc # "idle"
           /\ ex'[s].route = "/sse/message"
           /\ ex'[s].body.t = "object"
           /\ Get(ex'[s].body, "method") = Str("initialize")
           /\ Truthy(ex'[s].sid)) =>
            /\ "result" \in DOMAIN ex'[s].rpc
            /\ activeSessions' = activeSessions \cup {ex'[s].sid}]_vars

\* With a stream open, a tools/list posted under an id that no stream was
\* given and that is not in the session set has been answered with a result.
C38_Witness ==
  /\ Len(conns) >= 1
  /\ Finished("x1")
  /\ ex["x1"].route = "/sse/message"
  /\ ex["x1"].sid = Str("c1")
  /\ Str("c1") \notin activeSessions
  /\ IsRequestObject("x1") /\ ReqMethod("x1") = Str("tools/list")
  /\ ex["x1"].http.status = 200
  /\ "result" \in DOMAIN ex["x1"].http.body

\* The payload search_assignments returned in the exchange of slot s.
Payload(s) == ResultText(s).json.f

\* C39: a search_assignments call that upstream answered with a list of
\* postings returns a payload whose total is the length of its results,
\* whose page is the page asked for (1 when none was), and whose results
\* are the postings in order, each with at most 5 skills, the first five
\* it came with.
C39_SearchPayload ==
  \A s \in Slots :
    (/\ Settled(s) /\ CallName(s) = Str("search_assignments")
     /\ ~CallFailed(s) /\ ~Unsuccessful(s) /\ ~NoResults(s)) =>
      LET listed == Get(ex[s].reply.data, "results").v IN
      /\ HasResult(s)
      /\ DOMAIN Payload(s) = {"total", "page", "results"}
      /\ Payload(s).total = Num(Len(Payload(s).results.v))
      /\ Len(Payload(s).results.v) = Len(listed)
      /\ Payload(s).page =
           (IF CallArgs(s).page = Undefined THEN Num(1) ELSE CallArgs(s).page)
      /\ \A i \in DOMAIN listed :
           LET r == Payload(s).results.v[i].f IN
           /\ r.id = Get(listed[i], "id")
           /\ "skills" \in DOMAIN r =>
                /\ Len(r.skills.v) <= 5
                /\ \A j \in DOMAIN r.skills.v :
                     r.skills.v[j] = Get(listed[i], "skills").v[j]
           /\ "skills" \in DOMAIN r <=> Get(listed[i], "skills") # Undefined

\* Page 2 has been answered with two postings, the one that came with seven
\* skills cut to five.
C39_Witness ==
  /\ Settled("x1") /\ HasResult("x1")
  /\ CallName("x1") = Str("search_assignments")
  /\ CallArgs("x1").page = Num(2)
  /\ Payload("x1").total = Num(2)
  /\ Payload("x1").page = Num(2)
  /\ Payload("x1").results.v[1].f.id = Str("s7")
  /\ Len(Payload("x1").results.v[1].f.skills.v) = 5
  /\ Payload("x1").results.v[1].f.posted = Str("2025-01-02")

====
